---- MODULE Spec2Model ----
(***************************************************************************)
(* Waypoint execution engine of aima_codegen: Orchestrator._execute_waypoints *)
(* and Orchestrator._execute_single_waypoint with the budget tracker, the  *)
(* generation agents, verification and the merge into the project src/.    *)
(* Money is counted in micro-dollars, so the default price table           *)
(* (0.002 $ and 0.008 $ per 1k tokens) is 2 and 8 micro-dollars per token. *)
(***************************************************************************)
EXTENDS Integers, Sequences, FiniteSets, TLC

(* ---------------------------- bounds ---------------------------------- *)
NumWaypoints == 2          \* waypoints in the confirmed plan
TotalBudget == 50000       \* project cap (total_budget_usd), micro-dollars
MaxOps == 3                \* operations (load_project, develop, explain) per session run
SessWaypoints == 2         \* waypoints in a plan of the session specification
SessSetbacks == 3          \* failures, refusals and options per session run
MaxSetbacks == 4           \* failed verifications, declined budget prompts and
                           \* repaired or unusual generation results per run

(* ------------------------ program constants --------------------------- *)
max_revisions == 3
max_attempts == 3          \* call_llm: attempts per call
MaxDelay == 60             \* call_llm: cap of the backoff delay, seconds
MaxCompletionTokens == 4000
PromptPrice == 2
CompletionPrice == 8

(* ------------------------------ inputs -------------------------------- *)
AppPy == "src/app.py"
ReqTxt == "src/requirements.txt"
Paths == {AppPy, ReqTxt}

DefaultTokens == 4001      \* tokens_used of an ordinary generation result
PromptTokenChoices == {1000}
PlanTokensChoices == {600} \* tokens_used of the planning call
TokensUsedChoices == {DefaultTokens}

\* parsed agent results: the files of "code" in the order written and
\* whether "dependencies" is non-empty
DefaultResponse == [code |-> <<AppPy>>, deps |-> FALSE]
Responses ==
    { DefaultResponse,
      [code |-> <<>>, deps |-> FALSE],
      [code |-> <<AppPy>>, deps |-> TRUE] }

\* what one successful generation step receives: whether the first response
\* needed the JSON retry, the parsed result, and tokens_used
DefaultGen == [repaired |-> FALSE, response |-> DefaultResponse, tokens_used |-> DefaultTokens]
GenInputs ==
    {DefaultGen}
    \cup {[DefaultGen EXCEPT !.repaired = TRUE]}
    \cup {[DefaultGen EXCEPT !.response = r] : r \in Responses}
    \cup {[DefaultGen EXCEPT !.tokens_used = t] : t \in TokensUsedChoices}

\* model_costs.json as created from DEFAULT_MODEL_COSTS (two of its entries),
\* in micro-dollars per token
DefaultModel == "gpt-4.1-2025-04-14"
model_costs ==
    (DefaultModel :> [prompt_cost |-> PromptPrice, completion_cost |-> CompletionPrice])
    @@ ("o3-2025-04-16" :> [prompt_cost |-> 10, completion_cost |-> 40])

\* model ids a BudgetTracker call is made with; the last has no price entry
Models == DOMAIN model_costs \cup {"unknown-model"}

\* token counts the BudgetTracker calls are made with
LedgerPromptChoices == {0, 1000}
LedgerMaxCompletionChoices == {2000, MaxCompletionTokens}
LedgerCompletionChoices == {0, 2000}

FailureKinds == {"syntax", "lint", "test", "tooling"}
AgentTypes == {"CodeGen", "TestWriter"}

Statuses ==
    {"PENDING", "RUNNING", "SUCCESS", "FAILED_CODE", "FAILED_TESTS",
     "FAILED_LINT", "FAILED_TOOLING", "FAILED_REVISIONS",
     "FAILED_LLM_OUTPUT", "ABORTED"}

WpIds == 1..NumWaypoints

(* --------------------------- pure helpers ----------------------------- *)
Last(s) == s[Len(s)]

Range(s) == {s[k] : k \in 1..Len(s)}

\* models.py Waypoint defaults as created by the planner
NewWaypoint(agent) ==
    [agent_type |-> agent, status |-> "PENDING", revision_attempts |-> 0,
     feedback_history |-> <<>>, cost |-> 0, output_files |-> <<>>]

\* BudgetTracker.pre_call_check: the worst-case cost of the call
TotalCallCost(prompt_tokens, max_completion_tokens) ==
    prompt_tokens * PromptPrice + max_completion_tokens * CompletionPrice

\* BudgetTracker.pre_call_check: estimated_future_spent > total_budget
OverBudget(current_spent, prompt_tokens, max_completion_tokens) ==
    current_spent + TotalCallCost(prompt_tokens, max_completion_tokens) > TotalBudget

\* BudgetTracker.update_spent as called with tokens_used // 2 twice
CallCost(tokens_used) ==
    (tokens_used \div 2) * PromptPrice + (tokens_used \div 2) * CompletionPrice

ExceedsBudgetInclusive(estimated_future_spent, budget) ==
    estimated_future_spent >= budget

\* if estimated_future_spent > self.total_budget
ExceedsBudget(estimated_future_spent, budget) ==
    estimated_future_spent > budget

\* BudgetTracker.pre_call_check: what it raises or returns, whether it asked
\* the user (whose reply is answer), and current_spent afterwards
pre_call_check(model, current_spent, budget, prompt_tokens, max_completion_tokens, answer) ==
    IF model \notin DOMAIN model_costs
    THEN [raised |-> "ValueError", returned |-> FALSE, asked |-> FALSE,
          result |-> FALSE, current_spent |-> current_spent]
    ELSE LET costs == model_costs[model]
             prompt_cost == prompt_tokens * costs.prompt_cost
             max_completion_cost == max_completion_tokens * costs.completion_cost
             total_call_cost == prompt_cost + max_completion_cost
             estimated_future_spent == current_spent + total_call_cost
         IN  IF ExceedsBudget(estimated_future_spent, budget)
             THEN [raised |-> "none", returned |-> TRUE, asked |-> TRUE,
                   result |-> answer, current_spent |-> current_spent]
             ELSE [raised |-> "none", returned |-> TRUE, asked |-> FALSE,
                   result |-> TRUE, current_spent |-> current_spent]

UnpricedUpdateFree(current_spent) ==
    [raised |-> "none", returned |-> TRUE, total_cost |-> 0,
     current_spent |-> current_spent]

\* costs = self.model_costs[model] for a model without an entry: KeyError
UnpricedUpdate(current_spent) ==
    [raised |-> "KeyError", returned |-> FALSE, total_cost |-> 0,
     current_spent |-> current_spent]

\* BudgetTracker.update_spent: what it raises or returns and current_spent
\* afterwards
update_spent(model, current_spent, prompt_tokens, completion_tokens) ==
    IF model \notin DOMAIN model_costs
    THEN UnpricedUpdate(current_spent)
    ELSE LET costs == model_costs[model]
             prompt_cost == prompt_tokens * costs.prompt_cost
             completion_cost == completion_tokens * costs.completion_cost
             total_cost == prompt_cost + completion_cost
         IN  [raised |-> "none", returned |-> TRUE, total_cost |-> total_cost,
              current_spent |-> current_spent + total_cost]

\* for revision in range(max_revisions + 1)
RevisionRange == 0..max_revisions

AttemptNumberOffByOne(revision) == revision + 1

\* waypoint.revision_attempts = revision
AttemptNumber(revision) == revision

NextRevisionSame(revision) == revision

\* continue: the for loop takes the next value of range(max_revisions + 1)
NextRevision(revision) == revision + 1

CanReviseInclusive(revision) == revision <= max_revisions

\* if revision < max_revisions: continue
CanRevise(revision) == revision < max_revisions

IsLLMOutputErrorIgnored(result) == FALSE

\* result.get("llm_output_error")
IsLLMOutputError(result) == result = "llm_output_error"

\* status chosen from verification_result["error_type"]
FailedStatus(kind) ==
    CASE kind = "lint" -> "FAILED_LINT"
      [] kind = "test" -> "FAILED_TESTS"
      [] kind = "syntax" -> "FAILED_CODE"
      [] OTHER -> "FAILED_TOOLING_ERROR"

\* RevisionFeedback built from the verification result: the fields that are set
Feedback(kind) ==
    CASE kind = "lint" -> {"flake8_output"}
      [] kind = "test" -> {"pytest_output"}
      [] kind = "syntax" -> {"syntax_error"}
      [] OTHER -> {}

RecordFeedbackLatestOnly(history, kind) == <<Feedback(kind)>>

\* waypoint.feedback_history.append(feedback)
RecordFeedback(history, kind) == Append(history, Feedback(kind))

\* the files of an agent result written into the waypoint directory
WriteFiles(dir, response, content) ==
    [p \in Paths |->
        IF p \in Range(response.code) \/ (p = ReqTxt /\ response.deps)
        THEN content ELSE dir[p]]

\* _copy_waypoint_results limited to the files copied before it stopped
CopyFiles(src, dir, copied) ==
    [p \in Paths |-> IF p \in copied /\ dir[p] # 0 THEN dir[p] ELSE src[p]]

\* an agent context without the "revision_feedback" key
NoFeedback == [attached |-> FALSE, entry |-> {}]

ContextFeedbackFirst(revision, history) ==
    IF revision > 0 /\ history # <<>>
    THEN [attached |-> TRUE, entry |-> history[1]]
    ELSE NoFeedback

\* if revision > 0 and waypoint.feedback_history:
\*     context["revision_feedback"] = waypoint.feedback_history[-1]
ContextFeedback(revision, history) ==
    IF revision > 0 /\ history # <<>>
    THEN [attached |-> TRUE, entry |-> Last(history)]
    ELSE NoFeedback

HaltsRunNever(success) == FALSE

\* _execute_waypoints: break when the turn did not succeed
HaltsRun(success) == ~success

FinalStatusOverwritten(success, status) ==
    IF success THEN "SUCCESS" ELSE "FAILED_TOOLING"

\* _execute_waypoints: SUCCESS is written after a successful turn only
FinalStatus(success, status) == IF success THEN "SUCCESS" ELSE status

(* ------------------------------ state --------------------------------- *)
VARIABLES
    wps,            \* project_state.waypoints
    idx,            \* project_state.current_waypoint_index
    stateSpent,     \* project_state.current_spent_usd
    spent,          \* budget_tracker.current_spent
    tree,           \* the project's src/ : path -> content id, 0 = as initialised
    scratch,        \* waypoints/<id>/src of the waypoint being executed
    disk,           \* project_state.json as last saved
    pc,             \* position of the engine
    i,              \* loop variable of _execute_waypoints
    rev,            \* loop variable of _execute_single_waypoint
    success_count,  \* local of _execute_waypoints
    turnRes,        \* value returned by _execute_single_waypoint
    runResult,      \* outcome of _execute_waypoints
    verLog,         \* history: results of _verify_waypoint in this turn
    genCalls,       \* history: agent execute() calls in this turn
    denials,        \* history: declined budget prompts in this turn
    lastGen,        \* history: how the latest generation step of this turn ended
    revision_feedback, \* context["revision_feedback"] of the latest agent context
    codeWritten,    \* history: the files of "code" the latest generation step wrote
    merges,         \* history: completed merges per waypoint
    attempted,      \* history: waypoints whose turn was started, in order
    treeAtStart,    \* history: src/ when the current turn started
    setbacks,       \* environment outcomes counted against MaxSetbacks so far
    total_budget,   \* budget_tracker.total_budget
    ledgerOp,       \* history: the latest BudgetTracker call and how it ended
    adapter,        \* the provider adapter whose call_llm is running
    attempt,        \* loop variable of call_llm
    waits,          \* history: the time.sleep delays of this call_llm, in order
    errors,         \* history: the SDK exceptions of this call_llm, in order
    callResult,     \* how call_llm ended: a response or the exception raised
    recorded,       \* history: sum of the costs update_spent returned for the project
    overridden,     \* history: the user has confirmed an over-budget prompt
    stepCalls,      \* history: the LLM calls of the latest planning, generation
                    \* or explanation step, in order
    devLog,         \* history: what the latest develop did
    ops,            \* operations (load_project, develop, explain) started so far
    created,        \* project_state.creation_date
    storeLog,       \* history: the latest StateManager call and how it ended
    tmp,            \* the .project_state_*.tmp files of the project directory
    lockFile,       \* the project's .lock file
    procs           \* the processes working on the project: pid -> its state

engineVars == <<wps, idx, stateSpent, spent, tree, scratch, disk, pc, i, rev,
                success_count, turnRes, runResult, verLog, genCalls, denials,
                lastGen, revision_feedback, codeWritten, merges, attempted, treeAtStart, setbacks>>

engineVarsButSpent ==
    <<wps, idx, stateSpent, tree, scratch, disk, pc, i, rev, success_count,
      turnRes, runResult, verLog, genCalls, denials, lastGen, revision_feedback, codeWritten, merges,
      attempted, treeAtStart, setbacks>>

ledgerVars == <<total_budget, ledgerOp>>

callVars == <<adapter, attempt, waits, errors, callResult>>

sessionVars == <<recorded, overridden, stepCalls, devLog, ops>>

storeVars == <<created, storeLog, tmp>>

lockVars == <<lockFile, procs>>

\* everything the waypoint engine itself does not write
auxVars == <<ledgerVars, callVars, sessionVars, storeVars, lockVars>>

vars == <<engineVars, auxVars>>

\* StateManager.save: what project_state.json holds after the rename
SavedState(waypoints, index, current_spent_usd) ==
    [waypoints |-> waypoints, current_waypoint_index |-> index,
     current_spent_usd |-> current_spent_usd]

\* no BudgetTracker call has been made
LedgerIdle == ledgerOp = [op |-> "none"]

\* no call_llm is running
CallIdle ==
    /\ adapter = "none"
    /\ attempt = 0
    /\ waits = <<>>
    /\ errors = <<>>
    /\ callResult = "none"

\* no operation of a session has been started
SessionIdle ==
    /\ recorded = 0
    /\ overridden = FALSE
    /\ stepCalls = <<>>
    /\ devLog = [op |-> "none"]
    /\ ops = 0

\* a creation date with no microseconds
Epoch == <<1, 0>>

\* no .lock file
NoLock == [kind |-> "none"]

\* no process has started
LockIdle ==
    /\ lockFile = NoLock
    /\ procs = <<>>

\* no StateManager call has been made
StoreIdle ==
    /\ created = Epoch
    /\ storeLog = [op |-> "none"]
    /\ tmp = <<>>

\* entry of _execute_waypoints for a new project: the plan the planner
\* returned and the user confirmed has been saved, and the planning call has
\* been committed to the budget tracker (but not to project_state)
Init ==
    /\ wps \in [WpIds -> {NewWaypoint(a) : a \in AgentTypes}]
    /\ \A k \in WpIds : wps[k].agent_type = IF k % 2 = 1 THEN "CodeGen" ELSE "TestWriter"
    /\ idx = 0
    /\ stateSpent = 0
    /\ spent \in {CallCost(t) : t \in PlanTokensChoices}
    /\ tree = [p \in Paths |-> 0]
    /\ scratch = [p \in Paths |-> 0]
    /\ disk = SavedState(wps, 0, 0)
    /\ pc = "loop"
    /\ i = 1
    /\ rev = 0
    /\ success_count = 0
    /\ turnRes = FALSE
    /\ runResult = "none"
    /\ verLog = <<>>
    /\ genCalls = 0
    /\ denials = 0
    /\ lastGen = "none"
    /\ revision_feedback = NoFeedback
    /\ codeWritten = <<>>
    /\ merges = [k \in WpIds |-> 0]
    /\ attempted = <<>>
    /\ treeAtStart = tree
    /\ setbacks = 0
    /\ total_budget = TotalBudget
    /\ LedgerIdle
    /\ CallIdle
    /\ SessionIdle
    /\ LockIdle
    /\ StoreIdle

(* ---------------------- _execute_waypoints: loop head ------------------ *)
\* one iteration of the for loop up to the first revision: skip a SUCCESS
\* waypoint, else write the cursor, save, mark RUNNING, make the scratch copy
BeginWaypoint ==
    /\ pc = "loop"
    /\ i <= NumWaypoints
    /\ IF wps[i].status = "SUCCESS"
       THEN /\ success_count' = success_count + 1
            /\ i' = i + 1
            /\ UNCHANGED <<wps, idx, disk, pc, rev, scratch, verLog, genCalls,
                           denials, lastGen, revision_feedback, codeWritten, attempted, treeAtStart>>
       ELSE /\ idx' = i
            /\ disk' = SavedState(wps, i, stateSpent)
            /\ wps' = [wps EXCEPT ![i].status = "RUNNING"]
            /\ scratch' = tree
            /\ rev' = 0
            /\ pc' = "gen"
            /\ verLog' = <<>>
            /\ genCalls' = 0
            /\ denials' = 0
            /\ lastGen' = "none"
            /\ revision_feedback' = NoFeedback
            /\ codeWritten' = <<>>
            /\ attempted' = Append(attempted, i)
            /\ treeAtStart' = tree
            /\ UNCHANGED <<i, success_count>>
    /\ UNCHANGED <<stateSpent, spent, tree, turnRes, runResult, merges,
                   setbacks>>
    /\ UNCHANGED auxVars

(* ------------------ _execute_single_waypoint: generation ---------------- *)
\* the budget prompt is shown only when the estimate exceeds the cap;
\* answer is what the user replies to Confirm.ask
PreCallCheck(prompt_tokens, answer) ==
    IF OverBudget(spent, prompt_tokens, MaxCompletionTokens) THEN answer ELSE TRUE

\* the revision loop after a failed attempt of waypoint record w:
\* continue with the next revision, or FAILED_REVISIONS and return False
ReviseOrFail(w) ==
    IF CanRevise(rev)
    THEN IF NextRevision(rev) \in RevisionRange
         THEN /\ wps' = [wps EXCEPT ![i] = w]
              /\ rev' = NextRevision(rev)
              /\ pc' = "gen"
              /\ turnRes' = turnRes
         ELSE /\ wps' = [wps EXCEPT ![i] = w]
              /\ rev' = rev
              /\ pc' = "ret"
              /\ turnRes' = FALSE
    ELSE /\ wps' = [wps EXCEPT ![i] = [w EXCEPT !.status = "FAILED_REVISIONS"]]
         /\ rev' = rev
         /\ pc' = "ret"
         /\ turnRes' = FALSE

\* if not result["success"]: FAILED_LLM_OUTPUT ends the turn, anything
\* else goes through the revision loop
FailedResult(w, result) ==
    IF IsLLMOutputError(result)
    THEN /\ wps' = [wps EXCEPT ![i] = [w EXCEPT !.status = "FAILED_LLM_OUTPUT"]]
         /\ rev' = rev
         /\ pc' = "ret"
         /\ turnRes' = FALSE
    ELSE ReviseOrFail(w)

CallsMadeRetryLoop(repaired) == IF repaired THEN 3 ELSE 1

\* agent calls of one generation step: execute(context), and
\* execute(retry_context) once when the first result was not valid JSON
CallsMade(repaired) == IF repaired THEN 2 ELSE 1

\* the waypoint at the head of a revision: revision_attempts is written first
AtRevision == [wps[i] EXCEPT !.revision_attempts = AttemptNumber(rev)]

\* _build_agent_context raises ToolingError (a file over the 8 KB fallback limit)
GenContextError ==
    /\ pc = "gen"
    /\ wps[i].agent_type = "CodeGen"
    /\ wps' = [wps EXCEPT ![i] = [AtRevision EXCEPT !.status = "FAILED_TOOLING_ERROR"]]
    /\ pc' = "raised"
    /\ runResult' = "raised"
    /\ lastGen' = "context_error"
    /\ codeWritten' = <<>>
    /\ UNCHANGED revision_feedback
    /\ UNCHANGED <<idx, stateSpent, spent, tree, scratch, disk, i, rev,
                   success_count, turnRes, verLog, genCalls, denials,
                   merges, attempted, treeAtStart, setbacks>>
    /\ UNCHANGED auxVars

\* pre_call_check returns False: the user declined the override
GenBudgetDenied ==
    /\ pc = "gen"
    /\ setbacks < MaxSetbacks
    /\ \E prompt_tokens \in PromptTokenChoices :
          ~PreCallCheck(prompt_tokens, FALSE)
    /\ FailedResult([AtRevision EXCEPT !.status = "ABORTED"], "budget")
    /\ denials' = denials + 1
    /\ setbacks' = setbacks + 1
    /\ lastGen' = "denied"
    /\ codeWritten' = <<>>
    /\ revision_feedback' = ContextFeedback(rev, wps[i].feedback_history)
    /\ UNCHANGED <<idx, stateSpent, spent, tree, scratch, disk, i,
                   success_count, runResult, verLog, genCalls, merges,
                   attempted, treeAtStart>>
    /\ UNCHANGED auxVars

\* the agent's execute raises: the LLM call failed (first call or repair
\* call), or the response was JSON but not an object
GenCallError ==
    /\ pc = "gen"
    /\ \E prompt_tokens \in PromptTokenChoices, answer \in BOOLEAN :
          PreCallCheck(prompt_tokens, answer)
    /\ \E repaired \in BOOLEAN : genCalls' = genCalls + CallsMade(repaired)
    /\ wps' = [wps EXCEPT ![i] = AtRevision]
    /\ pc' = "raised"
    /\ runResult' = "raised"
    /\ lastGen' = "call_error"
    /\ codeWritten' = <<>>
    /\ revision_feedback' = ContextFeedback(rev, wps[i].feedback_history)
    /\ UNCHANGED <<idx, stateSpent, spent, tree, scratch, disk, i, rev,
                   success_count, turnRes, verLog, denials,
                   merges, attempted, treeAtStart, setbacks>>
    /\ UNCHANGED auxVars

\* invalid JSON, and the one retry is invalid JSON too
GenStructuralFailure ==
    /\ pc = "gen"
    /\ \E prompt_tokens \in PromptTokenChoices, answer \in BOOLEAN :
          PreCallCheck(prompt_tokens, answer)
    /\ genCalls' = genCalls + CallsMade(TRUE)
    /\ FailedResult(AtRevision, "llm_output_error")
    /\ lastGen' = "structural"
    /\ codeWritten' = <<>>
    /\ revision_feedback' = ContextFeedback(rev, wps[i].feedback_history)
    /\ UNCHANGED <<idx, stateSpent, spent, tree, scratch, disk, i,
                   success_count, runResult, verLog, denials,
                   merges, attempted, treeAtStart, setbacks>>
    /\ UNCHANGED auxVars

\* a parsed result, at once or from the retry: commit the cost, write the
\* files, extend output_files
Generated(w, response, tokens_used) ==
    [w EXCEPT !.cost = @ + CallCost(tokens_used),
              !.output_files = @ \o response.code]

GenSuccess ==
    /\ pc = "gen"
    /\ \E prompt_tokens \in PromptTokenChoices, answer \in BOOLEAN :
          PreCallCheck(prompt_tokens, answer)
    /\ \E g \in GenInputs :
          /\ g # DefaultGen => setbacks < MaxSetbacks
          /\ setbacks' = IF g # DefaultGen THEN setbacks + 1 ELSE setbacks
          /\ lastGen' = IF g.repaired THEN "repaired" ELSE "ok"
          /\ revision_feedback' = ContextFeedback(rev, wps[i].feedback_history)
          /\ genCalls' = genCalls + CallsMade(g.repaired)
          /\ spent' = spent + CallCost(g.tokens_used)
          /\ stateSpent' = spent'
          /\ wps' = [wps EXCEPT ![i] = Generated(AtRevision, g.response, g.tokens_used)]
          /\ codeWritten' = g.response.code
          /\ scratch' = WriteFiles(scratch, g.response, i)
    /\ pc' = "verify"
    /\ UNCHANGED <<idx, tree, disk, i, rev, success_count, turnRes, runResult,
                   verLog, denials, merges, attempted, treeAtStart>>
    /\ UNCHANGED auxVars

\* as GenSuccess, but installing the declared dependencies raises ToolingError
GenInstallError ==
    /\ pc = "gen"
    /\ \E prompt_tokens \in PromptTokenChoices, answer \in BOOLEAN :
          PreCallCheck(prompt_tokens, answer)
    /\ \E g \in GenInputs :
          /\ g.response.deps
          /\ genCalls' = genCalls + CallsMade(g.repaired)
          /\ spent' = spent + CallCost(g.tokens_used)
          /\ stateSpent' = spent'
          /\ wps' = [wps EXCEPT ![i] = Generated(AtRevision, g.response, g.tokens_used)]
          /\ codeWritten' = g.response.code
          /\ scratch' = WriteFiles(scratch, g.response, i)
    /\ pc' = "raised"
    /\ runResult' = "raised"
    /\ lastGen' = "install_error"
    /\ revision_feedback' = ContextFeedback(rev, wps[i].feedback_history)
    /\ UNCHANGED <<idx, tree, disk, i, rev, success_count, turnRes,
                   verLog, denials, merges, attempted, treeAtStart,
                   setbacks>>
    /\ UNCHANGED auxVars

(* ------------------ _execute_single_waypoint: verification -------------- *)
\* verification passed and every file was copied back to src/
VerifyPass ==
    /\ pc = "verify"
    /\ verLog' = Append(verLog, "pass")
    /\ tree' = CopyFiles(tree, scratch, Paths)
    /\ merges' = [merges EXCEPT ![i] = @ + 1]
    /\ pc' = "ret"
    /\ turnRes' = TRUE
    /\ UNCHANGED <<lastGen, revision_feedback, codeWritten, wps, idx, stateSpent, spent, scratch, disk, i, rev,
                   success_count, runResult, genCalls, denials,
                   attempted, treeAtStart, setbacks>>
    /\ UNCHANGED auxVars

\* verification passed and a copy raised after the files in copied were
\* written to src/
VerifyPassMergeError ==
    /\ pc = "verify"
    /\ verLog' = Append(verLog, "pass")
    /\ \E copied \in (SUBSET Paths) \ {Paths} :
          tree' = CopyFiles(tree, scratch, copied)
    /\ pc' = "raised"
    /\ runResult' = "raised"
    /\ UNCHANGED <<lastGen, revision_feedback, codeWritten, wps, idx, stateSpent, spent, scratch, disk, i, rev,
                   success_count, turnRes, genCalls, denials,
                   merges, attempted, treeAtStart, setbacks>>
    /\ UNCHANGED auxVars

\* verification failed: append the feedback, set the status, revise or give up
VerifyFail ==
    /\ pc = "verify"
    /\ setbacks < MaxSetbacks
    /\ \E kind \in FailureKinds :
          /\ verLog' = Append(verLog, kind)
          /\ ReviseOrFail([wps[i] EXCEPT
                              !.feedback_history = RecordFeedback(@, kind),
                              !.status = FailedStatus(kind)])
    /\ setbacks' = setbacks + 1
    /\ UNCHANGED <<lastGen, revision_feedback, codeWritten, idx, stateSpent, spent, tree, scratch, disk, i,
                   success_count, runResult, genCalls, denials,
                   merges, attempted, treeAtStart>>
    /\ UNCHANGED auxVars

(* ------------------ _execute_waypoints: after the turn ------------------ *)
\* SUCCESS, save and next waypoint after a successful turn; after a failed
\* one break, the final summary and return success_count == total
FinishWaypoint ==
    /\ pc = "ret"
    /\ LET w == [wps[i] EXCEPT !.status = FinalStatus(turnRes, @)]
       IN  /\ wps' = [wps EXCEPT ![i] = w]
           /\ IF HaltsRun(turnRes)
              THEN /\ pc' = "done"
                   /\ runResult' = IF success_count = NumWaypoints
                                    THEN "success" ELSE "failure"
                   /\ UNCHANGED <<i, disk, success_count>>
              ELSE /\ success_count' = IF turnRes THEN success_count + 1
                                       ELSE success_count
                   /\ disk' = SavedState(wps', idx, stateSpent)
                   /\ i' = i + 1
                   /\ pc' = "loop"
                   /\ UNCHANGED runResult
    /\ UNCHANGED <<lastGen, revision_feedback, codeWritten, idx, stateSpent, spent, tree, scratch, rev, turnRes,
                   verLog, genCalls, denials, merges,
                   attempted, treeAtStart, setbacks>>
    /\ UNCHANGED auxVars

\* the loop is exhausted: the final summary, return success_count == total
EndRun ==
    /\ pc = "loop"
    /\ i > NumWaypoints
    /\ runResult' = IF success_count = NumWaypoints THEN "success" ELSE "failure"
    /\ pc' = "done"
    /\ UNCHANGED <<lastGen, revision_feedback, codeWritten, wps, idx, stateSpent, spent, tree, scratch, disk, i, rev,
                   success_count, turnRes, verLog, genCalls, denials,
                   merges, attempted, treeAtStart, setbacks>>
    /\ UNCHANGED auxVars

(* ------------------------- shutdown on a signal ------------------------- *)
\* SIGINT or SIGTERM while _execute_single_waypoint runs: the handler calls
\* Orchestrator.cleanup, which saves project_state as it is in memory at that
\* moment, and then sys.exit(0)
SignalCleanup ==
    /\ pc \in {"gen", "verify"}
    /\ disk' = SavedState(wps, idx, stateSpent)
    /\ pc' = "exited"
    /\ UNCHANGED <<lastGen, revision_feedback, codeWritten, wps, idx, stateSpent, spent, tree, scratch, i, rev,
                   success_count, turnRes, runResult, verLog, genCalls, denials,
                   merges, attempted, treeAtStart, setbacks>>
    /\ UNCHANGED auxVars

Next ==
    \/ BeginWaypoint
    \/ GenContextError
    \/ GenBudgetDenied
    \/ GenCallError
    \/ GenStructuralFailure
    \/ GenSuccess
    \/ GenInstallError
    \/ VerifyPass
    \/ VerifyPassMergeError
    \/ VerifyFail
    \/ FinishWaypoint
    \/ EndRun
    \/ SignalCleanup

Spec == Init /\ [][Next]_vars

(* ------------------ one call of _execute_single_waypoint ---------------- *)
\* entry of _execute_single_waypoint for the first waypoint of a new plan:
\* the cursor is saved, the waypoint is RUNNING, the scratch copy is made
TurnInit ==
    /\ wps \in [WpIds -> {NewWaypoint(a) : a \in AgentTypes}
                           \cup {[NewWaypoint(a) EXCEPT !.status = "RUNNING"] :
                                    a \in AgentTypes}]
    /\ \A k \in WpIds :
          /\ wps[k].agent_type = IF k % 2 = 1 THEN "CodeGen" ELSE "TestWriter"
          /\ wps[k].status = IF k = 1 THEN "RUNNING" ELSE "PENDING"
    /\ idx = 1
    /\ stateSpent = 0
    /\ spent \in {CallCost(t) : t \in PlanTokensChoices}
    /\ tree = [p \in Paths |-> 0]
    /\ scratch = tree
    /\ disk = SavedState([wps EXCEPT ![1].status = "PENDING"], 1, 0)
    /\ pc = "gen"
    /\ i = 1
    /\ rev = 0
    /\ success_count = 0
    /\ turnRes = FALSE
    /\ runResult = "none"
    /\ verLog = <<>>
    /\ genCalls = 0
    /\ denials = 0
    /\ lastGen = "none"
    /\ revision_feedback = NoFeedback
    /\ codeWritten = <<>>
    /\ merges = [k \in WpIds |-> 0]
    /\ attempted = <<1>>
    /\ treeAtStart = tree
    /\ setbacks = 0
    /\ total_budget = TotalBudget
    /\ LedgerIdle
    /\ CallIdle
    /\ SessionIdle
    /\ LockIdle
    /\ StoreIdle

\* the steps of the revision loop
TurnNext ==
    \/ GenContextError
    \/ GenBudgetDenied
    \/ GenCallError
    \/ GenStructuralFailure
    \/ GenSuccess
    \/ GenInstallError
    \/ VerifyPass
    \/ VerifyPassMergeError
    \/ VerifyFail
    \/ SignalCleanup

\* the interpreter keeps executing the loop: a step of the engine that can
\* be taken is taken; signals need not arrive
TurnSpec == TurnInit /\ [][TurnNext]_vars /\ WF_vars(TurnNext /\ pc' # "exited")

(* --------------------------- BudgetTracker ------------------------------ *)
\* no waypoint turn has been run
TurnIdle ==
    /\ tree = [p \in Paths |-> 0]
    /\ scratch = [p \in Paths |-> 0]
    /\ success_count = 0
    /\ turnRes = FALSE
    /\ runResult = "none"
    /\ verLog = <<>>
    /\ genCalls = 0
    /\ denials = 0
    /\ lastGen = "none"
    /\ revision_feedback = NoFeedback
    /\ codeWritten = <<>>
    /\ merges = [k \in WpIds |-> 0]
    /\ attempted = <<>>
    /\ treeAtStart = tree
    /\ setbacks = 0

\* the engine is not running: a new project without a plan
EngineIdle ==
    /\ TurnIdle
    /\ wps = <<>>
    /\ idx = 0
    /\ stateSpent = 0
    /\ disk = SavedState(wps, 0, 0)
    /\ pc = "idle"
    /\ i = 1
    /\ rev = 0

\* current_spent values a tracker starts from (load_project copies the saved
\* spend): nothing spent, and the two values around the cap's edge for a
\* 1000-token prompt with the generation maximum on the default model
LedgerSpentChoices ==
    {0,
     TotalBudget - TotalCallCost(1000, MaxCompletionTokens),
     TotalBudget - TotalCallCost(1000, MaxCompletionTokens) + 1}

LedgerInit ==
    /\ EngineIdle
    /\ CallIdle
    /\ SessionIdle
    /\ LockIdle
    /\ StoreIdle
    /\ spent \in LedgerSpentChoices
    /\ total_budget = TotalBudget
    /\ ledgerOp = [op |-> "none"]

\* one call of BudgetTracker.pre_call_check
LedgerCheck ==
    /\ \E model \in Models, prompt_tokens \in LedgerPromptChoices,
          max_completion_tokens \in LedgerMaxCompletionChoices,
          answer \in BOOLEAN :
          LET r == pre_call_check(model, spent, total_budget, prompt_tokens,
                                  max_completion_tokens, answer)
          IN  /\ spent' = r.current_spent
              /\ ledgerOp' = [op |-> "pre_call_check", model |-> model,
                              prompt_tokens |-> prompt_tokens,
                              completion_tokens |-> max_completion_tokens,
                              answer |-> answer, before |-> spent,
                              raised |-> r.raised, returned |-> r.returned,
                              asked |-> r.asked, result |-> r.result,
                              total_cost |-> 0]
    /\ UNCHANGED <<total_budget, engineVarsButSpent, callVars, storeVars, lockVars, sessionVars>>

\* one call of BudgetTracker.update_spent; calls stop once the cap is passed
LedgerRecord ==
    /\ spent <= total_budget
    /\ \E model \in Models, prompt_tokens \in LedgerPromptChoices,
          completion_tokens \in LedgerCompletionChoices :
          LET r == update_spent(model, spent, prompt_tokens, completion_tokens)
          IN  /\ spent' = r.current_spent
              /\ ledgerOp' = [op |-> "update_spent", model |-> model,
                              prompt_tokens |-> prompt_tokens,
                              completion_tokens |-> completion_tokens,
                              answer |-> FALSE, before |-> spent,
                              raised |-> r.raised, returned |-> r.returned,
                              asked |-> FALSE, result |-> FALSE,
                              total_cost |-> r.total_cost]
    /\ UNCHANGED <<total_budget, engineVarsButSpent, callVars, storeVars, lockVars, sessionVars>>

LedgerNext ==
    \/ LedgerCheck
    \/ LedgerRecord

LedgerSpec == LedgerInit /\ [][LedgerNext]_vars

(* ------------------------------ call_llm -------------------------------- *)
Adapters == {"OpenAI", "Anthropic", "Google"}

\* one except clause of call_llm: the typed error it raises and whether it
\* has the "if attempt < max_attempts: sleep, continue" branch
Handler(typed, retries) == [typed |-> typed, retries |-> retries]

\* the except clauses of each adapter's call_llm by the SDK exception they
\* catch; "Exception" is anything no earlier clause catches
Handlers(a) ==
    CASE a = "OpenAI" ->
            ("AuthenticationError" :> Handler("InvalidAPIKeyError", FALSE))
            @@ ("RateLimitError" :> Handler("RateLimitError", TRUE))
            @@ ("APIStatusError_5xx" :> Handler("ServerError", TRUE))
            @@ ("APIStatusError_4xx" :> Handler("LLMAPIError", FALSE))
            @@ ("APITimeoutError" :> Handler("NetworkError", TRUE))
            @@ ("APIConnectionError" :> Handler("NetworkError", TRUE))
            @@ ("Exception" :> Handler("LLMAPIError", FALSE))
      [] a = "Anthropic" ->
            ("AuthenticationError" :> Handler("InvalidAPIKeyError", FALSE))
            @@ ("RateLimitError" :> Handler("RateLimitError", TRUE))
            @@ ("InternalServerError" :> Handler("ServerError", TRUE))
            @@ ("APITimeoutError" :> Handler("NetworkError", TRUE))
            @@ ("APIConnectionError" :> Handler("NetworkError", TRUE))
            @@ ("Exception" :> Handler("LLMAPIError", FALSE))
      [] OTHER ->
            ("Unauthenticated" :> Handler("InvalidAPIKeyError", FALSE))
            @@ ("ResourceExhausted" :> Handler("RateLimitError", TRUE))
            @@ ("InternalServerError" :> Handler("ServerError", TRUE))
            @@ ("DeadlineExceeded" :> Handler("NetworkError", TRUE))
            @@ ("Exception" :> Handler("LLMAPIError", FALSE))

Min(a, b) == IF a <= b THEN a ELSE b

\* delay = min(60, 2 ** attempt)
Delay(n) == Min(MaxDelay, 2 ^ n)

ShouldRetryInclusive(n) == n <= max_attempts

\* if attempt < max_attempts
ShouldRetry(n) == n < max_attempts

RetriesAlways(h) == TRUE

\* the clause sleeps and continues instead of raising at once
Retries(h) == h.retries

\* entry of call_llm on one of the adapters: for attempt in range(1, ...)
CallInit ==
    /\ EngineIdle
    /\ LedgerIdle
    /\ SessionIdle
    /\ LockIdle
    /\ StoreIdle
    /\ spent = 0
    /\ total_budget = TotalBudget
    /\ adapter \in Adapters
    /\ attempt = 1
    /\ waits = <<>>
    /\ errors = <<>>
    /\ callResult = "none"

\* the SDK call of this attempt returns: call_llm returns the LLMResponse
CallReturns ==
    /\ callResult = "none"
    /\ attempt \in 1..max_attempts
    /\ callResult' = "response"
    /\ UNCHANGED <<adapter, attempt, waits, errors, engineVars, ledgerVars, storeVars, lockVars,
                   sessionVars>>

\* the SDK call of this attempt raises exc: the matching except clause
\* sleeps and continues with the next attempt, or raises its typed error;
\* a loop that ran out without either would return None
CallFails ==
    /\ callResult = "none"
    /\ attempt \in 1..max_attempts
    /\ \E exc \in DOMAIN Handlers(adapter) :
          LET h == Handlers(adapter)[exc]
          IN  /\ errors' = Append(errors, exc)
              /\ IF Retries(h) /\ ShouldRetry(attempt)
                 THEN /\ waits' = Append(waits, Delay(attempt))
                      /\ attempt' = attempt + 1
                      /\ callResult' = IF attempt + 1 \in 1..max_attempts
                                       THEN "none" ELSE "None"
                 ELSE /\ callResult' = h.typed
                      /\ UNCHANGED <<waits, attempt>>
    /\ UNCHANGED <<adapter, engineVars, ledgerVars, storeVars, lockVars, sessionVars>>

CallNext ==
    \/ CallReturns
    \/ CallFails

CallSpec == CallInit /\ [][CallNext]_vars

(* ------------------ one project over several operations ---------------- *)
PlannerMaxTokens == 2000   \* the completion maximum _plan_waypoints checks with

\* --budget of develop: 0 keeps the project's budget
BudgetChoices == {0, TotalBudget}

\* tokens_used of a generation result: the usual one, and one whose prompt
\* was longer than the text the pre-call estimate counted
SessTokensChoices == {DefaultTokens, 2 * MaxCompletionTokens}

\* tokens_used of an explanation
ExplainTokensChoices == {1000}

\* how the agent's call(s) of one generation step end
GenOutcomes == {"ok", "repaired", "invalid_twice", "raises"}

\* how the planner's call ends
PlanOutcomes == {"ok", "invalid", "raises"}

\* one LLM call as the budget sees it: whether a pre_call_check of its own
\* preceded it, the worst case approved for the step, whether a response
\* came back, and what update_spent added for it (committed = FALSE: nothing)
LLMCall(kind, checked, approved, responded, committed, cost) ==
    [kind |-> kind, checked |-> checked, approved |-> approved,
     responded |-> responded, committed |-> committed, cost |-> cost]

SetupOkAlways(valid) == TRUE

\* _setup_llm_service returns True: a key was found and validate_api_key
\* returned True
SetupOk(valid) == valid

\* a project initialised with TotalBudget and loaded into a new Orchestrator
SessInit ==
    /\ TurnIdle
    /\ LedgerIdle
    /\ CallIdle
    /\ SessionIdle
    /\ LockIdle
    /\ StoreIdle
    /\ wps = <<>>
    /\ idx = 0
    /\ stateSpent = 0
    /\ spent = 0
    /\ total_budget = TotalBudget
    /\ disk = SavedState(wps, 0, 0)
    /\ pc = "loaded"
    /\ i = 1
    /\ rev = 0

turnVars ==
    <<tree, scratch, success_count, runResult, verLog, genCalls, denials,
      lastGen, revision_feedback, codeWritten, merges, attempted, treeAtStart>>

\* n more inputs that differ from the usual run (a failure, a refusal, an
\* option, an unusual size) are taken, within the bound SessSetbacks
Unusual(n) ==
    /\ setbacks + n <= SessSetbacks
    /\ setbacks' = setbacks + n

Count(b) == IF b THEN 1 ELSE 0

\* the process ends: cleanup saves the state
SessExit ==
    /\ pc = "loaded"
    /\ disk' = SavedState(wps, idx, stateSpent)
    /\ pc' = "unloaded"
    /\ UNCHANGED <<wps, idx, stateSpent, spent, total_budget, i, rev, turnRes,
                   turnVars, ledgerOp, callVars, storeVars, lockVars, sessionVars>>
    /\ UNCHANGED setbacks

\* load_project in a new process: the state is read from project_state.json
\* and a new BudgetTracker starts from the saved spend
SessLoadProject ==
    /\ pc = "unloaded"
    /\ ops < MaxOps
    /\ ops' = ops + 1
    /\ wps' = disk.waypoints
    /\ idx' = disk.current_waypoint_index
    /\ stateSpent' = disk.current_spent_usd
    /\ spent' = disk.current_spent_usd
    /\ pc' = "loaded"
    /\ UNCHANGED <<disk, total_budget, i, rev, turnRes, turnVars, ledgerOp,
                   callVars, storeVars, lockVars, recorded, overridden, stepCalls, devLog>>
    /\ UNCHANGED setbacks

\* develop up to the planning call: the budget option, _setup_llm_service
\* (valid: a key is there and validates), the save
SessDevelop ==
    /\ pc = "loaded"
    /\ ops < MaxOps
    /\ ops' = ops + 1
    /\ \E budget \in BudgetChoices, valid \in BOOLEAN :
          /\ Unusual(Count(budget > 0) + Count(~valid))
          /\ total_budget' = IF budget > 0 THEN budget ELSE total_budget
          /\ spent' = IF budget > 0 THEN 0 ELSE spent
          /\ devLog' = [op |-> "develop", budget |-> budget, valid |-> valid,
                        planned |-> FALSE, generated |-> FALSE,
                        committed |-> FALSE, plan_check |-> "none",
                        waypoints |-> wps]
          /\ IF SetupOk(valid)
             THEN /\ disk' = SavedState(wps, idx, stateSpent)
                  /\ pc' = "plan"
             ELSE /\ pc' = "loaded"
                  /\ UNCHANGED disk
    /\ stepCalls' = <<>>
    /\ UNCHANGED <<wps, idx, stateSpent, i, rev, turnRes, turnVars, ledgerOp,
                   callVars, storeVars, lockVars, recorded, overridden>>

PlanAllowedAlways(result) == TRUE

\* _plan_waypoints: if not self.budget_tracker.pre_call_check(...): return []
PlanAllowed(result) == result

\* _plan_waypoints: the budget check with the planner maximum, the planner's
\* call, the commit of tokens_used // 2 twice when the plan parsed
SessPlan ==
    /\ pc = "plan"
    /\ \E prompt_tokens \in PromptTokenChoices, answer \in BOOLEAN,
          outcome \in PlanOutcomes, tokens_used \in PlanTokensChoices :
          LET chk == pre_call_check(DefaultModel, spent, total_budget,
                                    prompt_tokens, PlannerMaxTokens, answer)
              approved == TotalCallCost(prompt_tokens, PlannerMaxTokens)
              upd == update_spent(DefaultModel, spent, tokens_used \div 2,
                                  tokens_used \div 2)
              checked == IF chk.result THEN "allowed" ELSE "denied"
          IN  IF ~PlanAllowed(chk.result)
              THEN /\ Unusual(1)
                   /\ stepCalls' = <<>>
                   /\ devLog' = [devLog EXCEPT !.plan_check = checked]
                   /\ pc' = "loaded"
                   /\ UNCHANGED <<spent, recorded, overridden>>
              ELSE /\ Unusual(Count(outcome # "ok"))
                   /\ overridden' = (overridden \/ chk.asked)
                   /\ IF outcome = "ok"
                      THEN /\ spent' = upd.current_spent
                           /\ recorded' = recorded + upd.total_cost
                           /\ stepCalls' = <<LLMCall("planning", TRUE, approved,
                                                     TRUE, TRUE, upd.total_cost)>>
                           /\ devLog' = [devLog EXCEPT !.planned = TRUE,
                                                       !.committed = TRUE,
                                                       !.plan_check = checked]
                           /\ pc' = "confirm"
                      ELSE /\ stepCalls' = <<LLMCall("planning", TRUE, approved,
                                                     outcome = "invalid", FALSE, 0)>>
                           /\ devLog' = [devLog EXCEPT !.planned = TRUE,
                                                       !.plan_check = checked]
                           /\ pc' = "loaded"
                           /\ UNCHANGED <<spent, recorded>>
    /\ UNCHANGED <<wps, idx, stateSpent, total_budget, disk, i, rev, turnRes,
                   turnVars, ledgerOp, callVars, storeVars, lockVars, ops>>

\* Confirm.ask("Proceed with this plan?"): on yes the plan replaces the
\* waypoints, the state is saved and _execute_waypoints starts
SessConfirmPlan ==
    /\ pc = "confirm"
    /\ \E answer \in BOOLEAN :
          IF answer
          THEN /\ Unusual(0)
               /\ wps' = [k \in 1..SessWaypoints |->
                            NewWaypoint(IF k % 2 = 1 THEN "CodeGen" ELSE "TestWriter")]
               /\ disk' = SavedState(wps', idx, stateSpent)
               /\ i' = 1
               /\ pc' = "loop"
          ELSE /\ Unusual(1)
               /\ pc' = "loaded"
               /\ UNCHANGED <<wps, disk, i>>
    /\ UNCHANGED <<idx, stateSpent, spent, total_budget, rev, turnRes, turnVars,
                   ledgerOp, callVars, storeVars, lockVars, sessionVars>>

\* _execute_waypoints, loop head: the cursor, the save, RUNNING
SessBeginTurn ==
    /\ pc = "loop"
    /\ i <= SessWaypoints
    /\ idx' = i
    /\ disk' = SavedState(wps, i, stateSpent)
    /\ wps' = [wps EXCEPT ![i].status = "RUNNING"]
    /\ rev' = 0
    /\ pc' = "gen"
    /\ UNCHANGED <<stateSpent, spent, total_budget, i, turnRes, turnVars,
                   ledgerOp, callVars, storeVars, lockVars, sessionVars>>
    /\ UNCHANGED setbacks

\* _execute_codegen / _execute_testwriter as the budget sees them: the
\* budget check, the agent's call, the one JSON retry, the commit of
\* tokens_used // 2 twice (the waypoint's cost, files and feedback are left
\* to the engine specification)
SessGenerate ==
    /\ pc = "gen"
    /\ \E prompt_tokens \in PromptTokenChoices, answer \in BOOLEAN,
          outcome \in GenOutcomes, tokens_used \in SessTokensChoices :
          LET chk == pre_call_check(DefaultModel, spent, total_budget,
                                    prompt_tokens, MaxCompletionTokens, answer)
              approved == TotalCallCost(prompt_tokens, MaxCompletionTokens)
              upd == update_spent(DefaultModel, spent, tokens_used \div 2,
                                  tokens_used \div 2)
              first == LLMCall("generation", TRUE, approved, outcome # "raises",
                               outcome = "ok",
                               IF outcome = "ok" THEN upd.total_cost ELSE 0)
              retry == LLMCall("repair", FALSE, approved, TRUE,
                               outcome = "repaired",
                               IF outcome = "repaired" THEN upd.total_cost ELSE 0)
          IN  IF ~chk.result
              THEN /\ Unusual(1)
                   /\ FailedResult([AtRevision EXCEPT !.status = "ABORTED"], "budget")
                   /\ stepCalls' = <<>>
                   /\ UNCHANGED <<spent, stateSpent, recorded, overridden, devLog>>
              ELSE /\ Unusual(Count(outcome # "ok")
                                + Count(tokens_used # DefaultTokens))
                   /\ overridden' = (overridden \/ chk.asked)
                   /\ stepCalls' = IF outcome \in {"repaired", "invalid_twice"}
                                   THEN <<first, retry>> ELSE <<first>>
                   /\ CASE outcome \in {"ok", "repaired"} ->
                             /\ spent' = upd.current_spent
                             /\ stateSpent' = spent'
                             /\ recorded' = recorded + upd.total_cost
                             /\ devLog' = [devLog EXCEPT !.generated = TRUE,
                                                         !.committed = TRUE]
                             /\ wps' = [wps EXCEPT ![i] = AtRevision]
                             /\ pc' = "verify"
                             /\ UNCHANGED <<rev, turnRes>>
                        [] outcome = "invalid_twice" ->
                             /\ FailedResult(AtRevision, "llm_output_error")
                             /\ devLog' = [devLog EXCEPT !.generated = TRUE]
                             /\ UNCHANGED <<spent, stateSpent, recorded>>
                        [] OTHER ->
                             /\ wps' = [wps EXCEPT ![i] = AtRevision]
                             /\ devLog' = [devLog EXCEPT !.generated = TRUE]
                             /\ pc' = "loaded"
                             /\ UNCHANGED <<spent, stateSpent, recorded, rev, turnRes>>
    /\ UNCHANGED <<idx, total_budget, disk, i, turnVars, ledgerOp, callVars, storeVars, lockVars, ops>>

\* _verify_waypoint and what follows it: return True, or the failed status
\* and the next revision or FAILED_REVISIONS
SessVerify ==
    /\ pc = "verify"
    /\ \E passed \in BOOLEAN :
          IF passed
          THEN /\ Unusual(0)
               /\ pc' = "ret"
               /\ turnRes' = TRUE
               /\ UNCHANGED <<wps, rev>>
          ELSE /\ Unusual(1)
               /\ ReviseOrFail([wps[i] EXCEPT !.status = FailedStatus("test")])
    /\ UNCHANGED <<idx, stateSpent, spent, total_budget, disk, i, turnVars,
                   ledgerOp, callVars, storeVars, lockVars, sessionVars>>

\* _execute_waypoints after the turn: SUCCESS, save and the next waypoint,
\* or break and return
SessFinishTurn ==
    /\ pc = "ret"
    /\ wps' = [wps EXCEPT ![i].status = FinalStatus(turnRes, @)]
    /\ IF HaltsRun(turnRes)
       THEN /\ pc' = "loaded"
            /\ UNCHANGED <<disk, i, turnRes>>
       ELSE /\ disk' = SavedState(wps', idx, stateSpent)
            /\ i' = i + 1
            /\ turnRes' = FALSE
            /\ pc' = "loop"
    /\ UNCHANGED <<idx, stateSpent, spent, total_budget, rev, turnVars,
                   ledgerOp, callVars, storeVars, lockVars, sessionVars>>
    /\ UNCHANGED setbacks

\* _execute_waypoints: the loop is exhausted, develop returns
SessEndRun ==
    /\ pc = "loop"
    /\ i > SessWaypoints
    /\ pc' = "loaded"
    /\ UNCHANGED <<wps, idx, stateSpent, spent, total_budget, disk, i, rev,
                   turnRes, turnVars, ledgerOp, callVars, storeVars, lockVars, sessionVars>>
    /\ UNCHANGED setbacks

\* explain_code with a project loaded: the explainer's call (no budget
\* check), update_spent(tokens_used, 0), the cost added to
\* current_spent_usd, the save
SessExplain ==
    /\ pc = "loaded"
    /\ ops < MaxOps
    /\ ops' = ops + 1
    /\ \E tokens_used \in ExplainTokensChoices :
          LET upd == update_spent(DefaultModel, spent, tokens_used, 0)
          IN  /\ spent' = upd.current_spent
              /\ recorded' = recorded + upd.total_cost
              /\ stateSpent' = stateSpent + upd.total_cost
              /\ stepCalls' = <<LLMCall("explanation", FALSE, 0, TRUE, TRUE,
                                        upd.total_cost)>>
    /\ disk' = SavedState(wps, idx, stateSpent')
    /\ UNCHANGED <<wps, idx, total_budget, pc, i, rev, turnRes, turnVars,
                   ledgerOp, callVars, storeVars, lockVars, overridden, devLog>>
    /\ UNCHANGED setbacks

SessNext ==
    \/ SessExit
    \/ SessLoadProject
    \/ SessDevelop
    \/ SessPlan
    \/ SessConfirmPlan
    \/ SessBeginTurn
    \/ SessGenerate
    \/ SessVerify
    \/ SessFinishTurn
    \/ SessEndRun
    \/ SessExplain

SessionSpec == SessInit /\ [][SessNext]_vars

(* ------------------- project_state.json: save and load ----------------- *)
StoreWaypoints == 1   \* waypoints of the stored project
StoreOps == 3         \* StateManager calls and engine assignments per behaviour
StoreMaxFeedback == 1 \* feedback_history entries per waypoint

\* creation_date as (seconds, microsecond): datetime.now() with and without
\* a fractional part
DateChoices == {Epoch, <<1, 5>>}

\* the values the engine assigns to waypoint.status
AssignedStatuses ==
    {"RUNNING", "SUCCESS", "ABORTED", "FAILED_LLM_OUTPUT", "FAILED_LINT",
     "FAILED_TESTS", "FAILED_CODE", "FAILED_TOOLING_ERROR", "FAILED_REVISIONS"}

\* models.py: Literal of Waypoint.agent_type
AgentTypeLiteral == {"CodeGen", "TestWriter", "Explainer", "Planner"}

RevisionFeedbackFields == {"pytest_output", "flake8_output", "syntax_error"}

\* JSON values
JNull == [t |-> "null"]
JStr(s) == [t |-> "str", v |-> s]
JNum(n) == [t |-> "num", v |-> n]
JArr(a) == [t |-> "arr", v |-> a]
JObj(o) == [t |-> "obj", v |-> o]

\* no project_state.json
Absent == [t |-> "absent"]

\* str(datetime), as json.dump(default=str) writes it: the fraction is
\* left out when microsecond is 0 (the text is kept as its parts)
DateStr(d) == IF d[2] = 0 THEN <<d[1]>> ELSE d

\* pydantic's datetime from that text
ParseDate(text) == IF Len(text) = 1 THEN <<text[1], 0>> ELSE text

\* the in-memory ProjectState
ProjectState(waypoints, index, current_spent_usd, total_budget_usd, creation_date) ==
    [waypoints |-> waypoints, current_waypoint_index |-> index,
     current_spent_usd |-> current_spent_usd,
     total_budget_usd |-> total_budget_usd, creation_date |-> creation_date]

\* model_dump of a RevisionFeedback: every field, None where it is not set
DumpFeedback(fb) ==
    JObj([f \in RevisionFeedbackFields |->
            IF f \in fb THEN JStr("output") ELSE JNull])

DumpWaypoint(w) ==
    JObj([agent_type |-> JStr(w.agent_type),
          status |-> JStr(w.status),
          revision_attempts |-> JNum(w.revision_attempts),
          feedback_history |->
              JArr([k \in 1..Len(w.feedback_history) |->
                      DumpFeedback(w.feedback_history[k])]),
          cost |-> JNum(w.cost),
          output_files |->
              JArr([k \in 1..Len(w.output_files) |-> JStr(w.output_files[k])])])

\* json.dump(state.model_dump(), default=str)
Encode(s) ==
    JObj([waypoints |->
              JArr([k \in 1..Len(s.waypoints) |-> DumpWaypoint(s.waypoints[k])]),
          current_waypoint_index |-> JNum(s.current_waypoint_index),
          current_spent_usd |-> JNum(s.current_spent_usd),
          total_budget_usd |-> JNum(s.total_budget_usd),
          creation_date |-> JStr(DateStr(s.creation_date))])

\* pydantic validation of Waypoint.status against its Literal
ValidStatus(status) == status \in Statuses

ValidWaypoint(j) ==
    /\ ValidStatus(j.v.status.v)
    /\ j.v.agent_type.v \in AgentTypeLiteral

ParseFeedback(j) == {f \in RevisionFeedbackFields : j.v[f].t = "str"}

ParseWaypoint(j) ==
    [agent_type |-> j.v.agent_type.v,
     status |-> j.v.status.v,
     revision_attempts |-> j.v.revision_attempts.v,
     feedback_history |->
         [k \in 1..Len(j.v.feedback_history.v) |->
            ParseFeedback(j.v.feedback_history.v[k])],
     cost |-> j.v.cost.v,
     output_files |->
         [k \in 1..Len(j.v.output_files.v) |-> j.v.output_files.v[k].v]]

\* ProjectState(**json.load(f)): the state, or the validation error
Decode(doc) ==
    IF \A k \in 1..Len(doc.v.waypoints.v) : ValidWaypoint(doc.v.waypoints.v[k])
    THEN [raised |-> "none",
          state |-> ProjectState(
              [k \in 1..Len(doc.v.waypoints.v) |-> ParseWaypoint(doc.v.waypoints.v[k])],
              doc.v.current_waypoint_index.v,
              doc.v.current_spent_usd.v,
              doc.v.total_budget_usd.v,
              ParseDate(doc.v.creation_date.v))]
    ELSE [raised |-> "ValidationError"]

\* the state the Orchestrator holds
Mem == ProjectState(wps, idx, stateSpent, total_budget, created)

\* a project as develop leaves it after the plan was accepted; no
\* project_state.json is assumed
StoreInit ==
    /\ TurnIdle
    /\ LedgerIdle
    /\ CallIdle
    /\ SessionIdle
    /\ LockIdle
    /\ wps = [k \in 1..StoreWaypoints |->
                NewWaypoint(IF k % 2 = 1 THEN "CodeGen" ELSE "TestWriter")]
    /\ idx = 0
    /\ stateSpent = 0
    /\ spent = 0
    /\ total_budget = TotalBudget
    /\ created \in DateChoices
    /\ disk = Absent
    /\ storeLog = [op |-> "none", exists |-> FALSE]
    /\ tmp = <<>>
    /\ pc = "loaded"
    /\ i = 1
    /\ rev = 0

StoreStep ==
    /\ ops < StoreOps
    /\ ops' = ops + 1

storeFrame ==
    <<spent, total_budget, pc, i, rev, turnRes, setbacks, turnVars, ledgerOp,
      callVars, recorded, overridden, stepCalls, devLog, created, tmp, lockVars>>

\* StateManager.save: the document replaces project_state.json
save ==
    /\ StoreStep
    /\ disk' = Encode(Mem)
    /\ storeLog' = [op |-> "save", exists |-> TRUE, saved |-> Mem]
    /\ UNCHANGED <<wps, idx, stateSpent, storeFrame>>

\* StateManager.load with no project_state.json: None
LoadAbsent ==
    /\ StoreStep
    /\ disk = Absent
    /\ storeLog' = [op |-> "load", exists |-> FALSE, raised |-> "none",
                    returned |-> "None"]
    /\ UNCHANGED <<wps, idx, stateSpent, disk, storeFrame>>

\* StateManager.load, as load_project calls it: the state replaces the one
\* in memory, or RuntimeError wraps the error of json.load / ProjectState
load ==
    /\ StoreStep
    /\ disk # Absent
    /\ LET res == Decode(disk)
       IN  IF res.raised = "none"
           THEN /\ storeLog' = [op |-> "load", exists |-> TRUE,
                                saved |-> storeLog.saved, raised |-> "none",
                                returned |-> res.state]
                /\ wps' = res.state.waypoints
                /\ idx' = res.state.current_waypoint_index
                /\ stateSpent' = res.state.current_spent_usd
           ELSE /\ storeLog' = [op |-> "load", exists |-> TRUE,
                                saved |-> storeLog.saved,
                                raised |-> "RuntimeError"]
                /\ UNCHANGED <<wps, idx, stateSpent>>
    /\ UNCHANGED <<disk, storeFrame>>

\* the engine assigns a status to a waypoint
AssignStatus ==
    /\ StoreStep
    /\ \E k \in 1..Len(wps), status \in AssignedStatuses :
          wps' = [wps EXCEPT ![k].status = status]
    /\ UNCHANGED <<idx, stateSpent, disk, storeLog, storeFrame>>

\* the engine starts a revision and records the feedback of the last one
AssignRevision ==
    /\ StoreStep
    /\ \E k \in 1..Len(wps), kind \in FailureKinds :
          /\ wps[k].revision_attempts < max_revisions
          /\ Len(wps[k].feedback_history) < StoreMaxFeedback
          /\ wps' = [wps EXCEPT
                       ![k].revision_attempts = @ + 1,
                       ![k].feedback_history = Append(@, Feedback(kind))]
    /\ UNCHANGED <<idx, stateSpent, disk, storeLog, storeFrame>>

\* the engine commits a generation result: cost, spend, files, cursor
AssignResult ==
    /\ StoreStep
    /\ \E k \in 1..Len(wps), tokens_used \in TokensUsedChoices :
          /\ stateSpent + CallCost(tokens_used) <= TotalBudget
          /\ wps' = [wps EXCEPT ![k].cost = @ + CallCost(tokens_used),
                                ![k].output_files = <<AppPy>>]
          /\ stateSpent' = stateSpent + CallCost(tokens_used)
          /\ idx' = k
    /\ UNCHANGED <<disk, storeLog, storeFrame>>

StoreNext ==
    \/ save
    \/ LoadAbsent
    \/ load
    \/ AssignStatus
    \/ AssignRevision
    \/ AssignResult

StoreSpec == StoreInit /\ [][StoreNext]_vars

(* ------------- StateManager.save step by step, with failures ----------- *)
SaveChunks == 2   \* writes in which json.dump's text reaches the temp file
SaveOps == 5      \* assignments, saves, loads and crashes per behaviour

\* a file of the project directory: the document being written, and how
\* many of its SaveChunks parts are in the file
File(doc, written) == [t |-> "file", doc |-> doc, written |-> written]

\* json.load accepts the text: all of the document is there
Parsable(f) == f.written = SaveChunks

WriteTargetInPlace == "state_file"

\* the file json.dump writes to: the one mkstemp created
WriteTarget == "temp"

\* os.rename(temp_path, state_file): the state file becomes the temporary file,
\* content unchanged
Rename(f) == f

\* an exception raised before the try block (mkstemp) leaves save as it is
SaveErrorUnwrapped(exc) == exc

\* except Exception as e: ... raise RuntimeError(f"Failed to save state: {e}")
SaveError(exc) == "RuntimeError"

\* StateManager.load on the file as it is
LoadFile(f) ==
    IF f = Absent THEN [raised |-> "none", none |-> TRUE]
    ELSE IF ~Parsable(f) THEN [raised |-> "RuntimeError", none |-> FALSE]
    ELSE LET res == Decode(f.doc)
         IN  IF res.raised = "none"
             THEN [raised |-> "none", none |-> FALSE, state |-> res.state]
             ELSE [raised |-> "RuntimeError", none |-> FALSE]

\* the history kept of the save in progress or last ended: what it raised,
\* the state being saved, project_state.json and the temp files before it,
\* the last state a save completed for (has: there is one), and the step
\* at which the save ended
SaveLog(op, raised, pending, before, temps, has, committed, at) ==
    [op |-> op, raised |-> raised, pending |-> pending, before |-> before,
     temps |-> temps, has |-> has, committed |-> committed, at |-> at]

\* a loaded project that was never saved by this StateManager
SaveInit ==
    /\ TurnIdle
    /\ LedgerIdle
    /\ CallIdle
    /\ SessionIdle
    /\ LockIdle
    /\ wps = [k \in 1..StoreWaypoints |->
                NewWaypoint(IF k % 2 = 1 THEN "CodeGen" ELSE "TestWriter")]
    /\ idx = 0
    /\ stateSpent = 0
    /\ spent = 0
    /\ total_budget = TotalBudget
    /\ created \in DateChoices
    /\ disk = Absent
    /\ tmp = <<>>
    /\ storeLog = SaveLog("none", "none", Mem, Absent, <<>>, FALSE, Mem, "none")
    /\ pc = "idle"
    /\ i = 1
    /\ rev = 0

SaveStep ==
    /\ ops < SaveOps
    /\ ops' = ops + 1

saveFrame ==
    <<spent, total_budget, i, rev, turnRes, setbacks, turnVars, ledgerOp,
      callVars, recorded, overridden, stepCalls, devLog, created, wps, idx, lockVars>>

\* between saves the engine commits a cost to the state in memory
SaveAssign ==
    /\ pc = "idle"
    /\ SaveStep
    /\ \E tokens_used \in TokensUsedChoices :
          stateSpent' = stateSpent + CallCost(tokens_used)
    /\ UNCHANGED <<disk, tmp, storeLog, pc, saveFrame>>

\* save: tempfile.mkstemp creates an empty temp file in the project directory
SaveMkstemp ==
    /\ pc = "idle"
    /\ SaveStep
    /\ tmp' = Append(tmp, File(Encode(Mem), 0))
    /\ storeLog' = SaveLog("save", "running", Mem, disk, tmp, storeLog.has,
                           storeLog.committed, "running")
    /\ pc' = "write"
    /\ UNCHANGED <<disk, stateSpent, saveFrame>>

\* save: mkstemp raises (the directory is read-only or gone); the call is
\* before the try block, so the error leaves save as it is
SaveMkstempFails ==
    /\ pc = "idle"
    /\ SaveStep
    /\ storeLog' = SaveLog("save", SaveErrorUnwrapped("OSError"), Mem, disk, tmp,
                           storeLog.has, storeLog.committed, "mkstemp")
    /\ UNCHANGED <<disk, tmp, pc, stateSpent, saveFrame>>

\* save: json.dump writes the next part of the document
SaveWrite ==
    /\ pc = "write"
    /\ Last(tmp).written < SaveChunks
    /\ tmp' = [tmp EXCEPT ![Len(tmp)].written = @ + 1]
    /\ disk' = IF WriteTarget = "temp"
               THEN disk
               ELSE File(Last(tmp).doc, Last(tmp').written)
    /\ UNCHANGED <<storeLog, pc, stateSpent, ops, saveFrame>>

\* save: json.dump or the write raises (a value that cannot be serialized,
\* a full disk): the handler unlinks the temp file and raises RuntimeError
SaveWriteFails ==
    /\ pc = "write"
    /\ Last(tmp).written < SaveChunks
    /\ tmp' = SubSeq(tmp, 1, Len(tmp) - 1)
    /\ storeLog' = [storeLog EXCEPT !.raised = SaveError("OSError"),
                                    !.at = "write"]
    /\ pc' = "idle"
    /\ UNCHANGED <<disk, stateSpent, ops, saveFrame>>

\* save: os.rename puts the closed temp file in place of project_state.json
SaveRename ==
    /\ pc = "write"
    /\ Parsable(Last(tmp))
    /\ disk' = IF WriteTarget = "temp" THEN Rename(Last(tmp)) ELSE disk
    /\ tmp' = SubSeq(tmp, 1, Len(tmp) - 1)
    /\ storeLog' = [storeLog EXCEPT !.raised = "none", !.has = TRUE,
                                    !.committed = storeLog.pending,
                                    !.at = "done"]
    /\ pc' = "idle"
    /\ UNCHANGED <<stateSpent, ops, saveFrame>>

\* save: os.rename raises: the handler unlinks the temp file and raises
\* RuntimeError
SaveRenameFails ==
    /\ pc = "write"
    /\ Parsable(Last(tmp))
    /\ tmp' = SubSeq(tmp, 1, Len(tmp) - 1)
    /\ storeLog' = [storeLog EXCEPT !.raised = SaveError("OSError"),
                                    !.at = "rename"]
    /\ pc' = "idle"
    /\ UNCHANGED <<disk, stateSpent, ops, saveFrame>>

\* the process is killed during save: the files stay as they are
SaveCrash ==
    /\ pc = "write"
    /\ SaveStep
    /\ storeLog' = [storeLog EXCEPT !.raised = "killed", !.at = "killed"]
    /\ pc' = "crashed"
    /\ UNCHANGED <<disk, tmp, stateSpent, saveFrame>>

\* StateManager.load, by the same process or by the next one after a
\* crash; a process that gets no state has no project to work on
SaveLoad ==
    /\ pc \in {"idle", "crashed"}
    /\ SaveStep
    /\ LET res == LoadFile(disk)
       IN  /\ storeLog' = [storeLog EXCEPT !.op = "load", !.raised = res.raised]
           /\ IF res.raised = "none" /\ ~res.none
              THEN /\ stateSpent' = res.state.current_spent_usd
                   /\ pc' = "idle"
              ELSE /\ UNCHANGED stateSpent
                   /\ pc' = IF pc = "crashed" THEN "stopped" ELSE "idle"
    /\ UNCHANGED <<disk, tmp, saveFrame>>

SaveNext ==
    \/ SaveAssign
    \/ SaveMkstemp
    \/ SaveMkstempFails
    \/ SaveWrite
    \/ SaveWriteFails
    \/ SaveRename
    \/ SaveRenameFails
    \/ SaveCrash
    \/ SaveLoad

SaveSpec == SaveInit /\ [][SaveNext]_vars

(* ------------- the .lock file and the life of a process ---------------- *)
NumProcs == 2    \* processes started on the project
MaxWork == 1     \* operations a process runs on the loaded project

\* the processes that run, and the pid of one that ended before them
\* without removing its lock
Pids == 1..NumProcs
GhostPid == 0

\* contents of .lock: pid and timestamp; a single line; a first line that
\* is not a number
Lock(pid) == [kind |-> "lock", pid |-> pid]
ShortLock == [kind |-> "short"]
GarbledLock == [kind |-> "garbled"]

\* how the program is started: python -m aima_codegen.main runs the
\* __main__ block, the aima-codegen console script calls app() directly
Entries == {"module", "script"}

\* psutil.pid_exists(pid)
Alive(pid) == pid \in Pids /\ procs[pid].pc \notin {"unstarted", "exited"}

check_lock_file_reclaims_stale(lock, alive) ==
    CASE lock.kind = "none" -> [ok |-> TRUE, message |-> "none"]
      [] lock.kind = "short" -> [ok |-> TRUE, message |-> "stale"]
      [] lock.kind = "garbled" -> [ok |-> FALSE, message |-> "fatal"]
      [] OTHER -> IF alive THEN [ok |-> FALSE, message |-> "in_use"]
                  ELSE [ok |-> TRUE, message |-> "stale"]

\* utils.check_lock_file: True if there is no lock file; otherwise False
\* with the in-use, the stale-lock or the cannot-verify message
check_lock_file(lock, alive) ==
    CASE lock.kind = "none" -> [ok |-> TRUE, message |-> "none"]
      [] lock.kind = "short" -> [ok |-> FALSE, message |-> "stale"]
      [] lock.kind = "garbled" -> [ok |-> FALSE, message |-> "fatal"]
      [] OTHER -> IF alive THEN [ok |-> FALSE, message |-> "in_use"]
                  ELSE [ok |-> FALSE, message |-> "stale"]

\* utils.remove_lock_file, as cleanup calls it: the file at lock_path is
\* unlinked if lock_path is set and the file exists
remove_lock_file(lock, lock_path) == IF lock_path THEN NoLock ELSE lock

\* whose lock a removal took away
Removed(lock, lock_path, pid) ==
    IF ~lock_path \/ lock.kind = "none" THEN "none"
    ELSE IF lock.kind = "lock" /\ lock.pid = pid THEN "own"
    ELSE "other"

\* calls of Orchestrator.cleanup when a signal ends the process: the
\* handler's, and that of the finally clause of the __main__ block which
\* the handler's sys.exit(0) passes through
CleanupsOnSignal(entry) == IF entry = "module" THEN 2 ELSE 1

\* calls of Orchestrator.cleanup when the command returns
CleanupsOnReturn(entry) == IF entry = "module" THEN 1 ELSE 0

\* a process before it starts
NewProc(entry) ==
    [pc |-> "unstarted", entry |-> entry, lock_path |-> FALSE,
     project_state |-> FALSE, check |-> "none", removed |-> "none",
     signalled |-> FALSE, saves |-> 0, shutdown_saves |-> 0, work |-> 0,
     cleanups_left |-> 0, unlocked_saves |-> 0]

\* a project directory with no lock, or with what an earlier process left
LockInit ==
    /\ EngineIdle
    /\ LedgerIdle
    /\ CallIdle
    /\ SessionIdle
    /\ StoreIdle
    /\ spent = 0
    /\ total_budget = TotalBudget
    /\ lockFile \in {NoLock, Lock(GhostPid), ShortLock, GarbledLock}
    /\ procs \in [Pids -> {NewProc(e) : e \in Entries}]

lockFrame == <<engineVars, ledgerVars, callVars, sessionVars, storeVars>>

\* the command line starts the process: the Orchestrator is constructed
\* and the signal handlers are installed
ProcStart(p) ==
    /\ procs[p].pc = "unstarted"
    /\ procs' = [procs EXCEPT ![p].pc = "start"]
    /\ UNCHANGED <<lockFile, lockFrame>>

\* load_project: lock_path is set, then check_lock_file
ProcCheck(p) ==
    /\ procs[p].pc = "start"
    /\ LET res == check_lock_file(lockFile,
                                  lockFile.kind = "lock" /\ Alive(lockFile.pid))
       IN  procs' = [procs EXCEPT
                       ![p].lock_path = TRUE,
                       ![p].check = IF res.ok THEN "free" ELSE res.message,
                       ![p].pc = IF res.ok THEN "create" ELSE "refused"]
    /\ UNCHANGED <<lockFile, lockFrame>>

\* load_project: create_lock_file writes pid and timestamp
ProcCreate(p) ==
    /\ procs[p].pc = "create"
    /\ lockFile' = Lock(p)
    /\ procs' = [procs EXCEPT ![p].pc = "load"]
    /\ UNCHANGED lockFrame

\* load_project: StateManager.load returns the state
ProcLoad(p) ==
    /\ procs[p].pc = "load"
    /\ procs' = [procs EXCEPT ![p].pc = "loaded", ![p].project_state = TRUE]
    /\ UNCHANGED <<lockFile, lockFrame>>

\* load_project: StateManager.load returns None: the lock file is removed
\* and load_project returns False
ProcLoadNone(p) ==
    /\ procs[p].pc = "load"
    /\ lockFile' = remove_lock_file(lockFile, TRUE)
    /\ procs' = [procs EXCEPT ![p].pc = "refused",
                              ![p].removed = Removed(lockFile, TRUE, p)]
    /\ UNCHANGED lockFrame

\* an operation on the loaded project that changes and saves its state
ProcWork(p) ==
    /\ procs[p].pc = "loaded"
    /\ procs[p].work < MaxWork
    /\ procs' = [procs EXCEPT ![p].work = @ + 1, ![p].saves = @ + 1]
    /\ UNCHANGED <<lockFile, lockFrame>>

\* the process goes on to n calls of Orchestrator.cleanup, one after the
\* other, and exits at once when there is none
Cleanups(p, n, signalled) ==
    /\ procs' = [procs EXCEPT
                   ![p].pc = IF n > 0 THEN "cleanup" ELSE "exited",
                   ![p].signalled = signalled,
                   ![p].cleanups_left = n]
    /\ UNCHANGED lockFile

\* the command returns, or load_project returned False and the command
\* exits with status 1
ProcReturn(p) ==
    /\ procs[p].pc \in {"refused", "loaded"}
    /\ Cleanups(p, CleanupsOnReturn(procs[p].entry), FALSE)
    /\ UNCHANGED lockFrame

\* SIGINT or SIGTERM: signal_handler calls cleanup and then sys.exit(0)
ProcSignal(p) ==
    /\ procs[p].pc \in {"start", "create", "load", "loaded", "refused"}
    /\ Cleanups(p, CleanupsOnSignal(procs[p].entry), TRUE)
    /\ UNCHANGED lockFrame

\* Orchestrator.cleanup, first statement:
\* if self.lock_path: remove_lock_file(self.lock_path)
\* (with no project loaded the second statement does nothing and the call
\* is over)
CleanupRemove(p) ==
    /\ procs[p].pc = "cleanup"
    /\ lockFile' = remove_lock_file(lockFile, procs[p].lock_path)
    /\ LET left == procs[p].cleanups_left - 1
       IN  procs' = [procs EXCEPT
                       ![p].pc = IF procs[p].project_state THEN "cleanup_save"
                                 ELSE IF left > 0 THEN "cleanup" ELSE "exited",
                       ![p].cleanups_left = IF procs[p].project_state THEN @ ELSE left,
                       ![p].removed =
                           IF Removed(lockFile, procs[p].lock_path, p) # "none"
                           THEN Removed(lockFile, procs[p].lock_path, p)
                           ELSE @]
    /\ UNCHANGED lockFrame

\* Orchestrator.cleanup, second statement:
\* if self.state_manager and self.project_state: self.state_manager.save(...)
CleanupSave(p) ==
    /\ procs[p].pc = "cleanup_save"
    /\ LET left == procs[p].cleanups_left - 1
       IN  procs' = [procs EXCEPT
                       ![p].pc = IF left > 0 THEN "cleanup" ELSE "exited",
                       ![p].cleanups_left = left,
                       ![p].saves = @ + 1,
                       ![p].shutdown_saves = @ + 1,
                       ![p].unlocked_saves = IF lockFile # Lock(p) THEN @ + 1 ELSE @]
    /\ UNCHANGED <<lockFile, lockFrame>>

LockNext ==
    \E p \in Pids :
        \/ ProcStart(p)
        \/ ProcCheck(p)
        \/ ProcCreate(p)
        \/ ProcLoad(p)
        \/ ProcLoadNone(p)
        \/ ProcWork(p)
        \/ ProcReturn(p)
        \/ ProcSignal(p)
        \/ CleanupRemove(p)
        \/ CleanupSave(p)

LockSpec == LockInit /\ [][LockNext]_vars

(* ------------------ committing the cost of an LLM call ------------------ *)
MaxCommits == 2            \* calls committed per run

\* usage of one LLM response (LLMResponse.prompt_tokens, .completion_tokens)
UsagePromptChoices == {1000, 2000}
UsageCompletionChoices == {1000, 3001}

CommitKinds == {"planning", "generation", "explanation"}

\* the agents' result: "tokens_used": response.prompt_tokens + response.completion_tokens
TokensUsed(prompt_tokens, completion_tokens) == prompt_tokens + completion_tokens

\* the token counts the orchestrator passes to update_spent for a call of
\* kind: tokens_used // 2 twice (planning, generation), tokens_used and 0
\* (explanation)
CommittedTokens(kind, prompt_tokens, completion_tokens) ==
    LET tokens_used == TokensUsed(prompt_tokens, completion_tokens)
    IN  IF kind = "explanation"
        THEN [prompt_tokens |-> tokens_used, completion_tokens |-> 0]
        ELSE [prompt_tokens |-> tokens_used \div 2,
              completion_tokens |-> tokens_used \div 2]

\* a loaded project with one waypoint in its turn and nothing spent
CommitInit ==
    /\ TurnIdle
    /\ LedgerIdle
    /\ CallIdle
    /\ SessionIdle
    /\ LockIdle
    /\ StoreIdle
    /\ wps = <<[NewWaypoint("CodeGen") EXCEPT !.status = "RUNNING"]>>
    /\ idx = 1
    /\ stateSpent = 0
    /\ spent = 0
    /\ total_budget = TotalBudget
    /\ disk = SavedState(<<NewWaypoint("CodeGen")>>, 1, 0)
    /\ pc = "commit"
    /\ i = 1
    /\ rev = 0

\* a successful call of kind with the usage the provider reported: the
\* call of update_spent and what the orchestrator does with the cost
Commit(kind) ==
    /\ ops < MaxCommits
    /\ ops' = ops + 1
    /\ \E prompt_tokens \in UsagePromptChoices,
          completion_tokens \in UsageCompletionChoices :
          LET t == CommittedTokens(kind, prompt_tokens, completion_tokens)
              upd == update_spent(DefaultModel, spent, t.prompt_tokens,
                                  t.completion_tokens)
          IN  /\ spent' = upd.current_spent
              /\ ledgerOp' = [op |-> "commit", kind |-> kind,
                              model |-> DefaultModel,
                              prompt_tokens |-> prompt_tokens,
                              completion_tokens |-> completion_tokens,
                              before |-> spent, cost_before |-> wps[1].cost,
                              total_cost |-> upd.total_cost]
              /\ wps' = IF kind = "generation"
                        THEN [wps EXCEPT ![1].cost = @ + upd.total_cost]
                        ELSE wps
              /\ stateSpent' = CASE kind = "generation" -> spent'
                                  [] kind = "explanation" -> stateSpent + upd.total_cost
                                  [] OTHER -> stateSpent
              /\ disk' = IF kind = "explanation"
                         THEN SavedState(wps, idx, stateSpent')
                         ELSE disk
    /\ UNCHANGED <<idx, tree, scratch, pc, i, rev, success_count, turnRes,
                   runResult, verLog, genCalls, denials, lastGen, revision_feedback, codeWritten, merges,
                   attempted, treeAtStart, setbacks, total_budget, callVars,
                   storeVars, lockVars, recorded, overridden, stepCalls, devLog>>

CommitNext == \E kind \in CommitKinds : Commit(kind)

CommitSpec == CommitInit /\ [][CommitNext]_vars

(* ------------------------------ properties ---------------------------- *)
\* the waypoint the turn histories (verLog, genCalls, denials, lastGen) are about
Cur == Last(attempted)

\* _execute_single_waypoint has returned for Cur and no later turn has begun
TurnReturned == attempted # <<>> /\ pc \in {"ret", "loop", "done"}

CodeFailures == {"syntax", "lint", "test"}

\* the first n verifications of this turn failed with a syntax, lint or test failure
FirstFailed(n) == \A m \in 1..n : verLog[m] \in CodeFailures

TerminalStatuses == Statuses \ {"PENDING", "RUNNING"}

FinalStatuses == {"SUCCESS", "FAILED_REVISIONS", "FAILED_LLM_OUTPUT"}

\* C1: in every reachable state every waypoint has
\* revision_attempts <= max_revisions (3).
C1_RevisionBound ==
    \A k \in WpIds : wps[k].revision_attempts \in 0..max_revisions

\* C1 witness: a generation was made at the last allowed revision
C1_Witness ==
    /\ pc = "verify"
    /\ wps[i].revision_attempts = max_revisions
    /\ Len(verLog) = max_revisions

\* C2 (as claimed): a declined budget prompt ends the turn in that very step
\* with status ABORTED and spend and generation calls unchanged, and for
\* the rest of that waypoint's turn nothing further is attempted: no call,
\* no prompt, no revision, and the status stays ABORTED.
C2_DenialEndsTurn ==
    [][ /\ denials' > denials =>
            /\ pc' = "ret"
            /\ turnRes' = FALSE
            /\ wps'[i].status = "ABORTED"
            /\ spent' = spent
            /\ genCalls' = genCalls
        /\ (denials > 0 /\ attempted' = attempted) =>
            /\ denials' = denials
            /\ genCalls' = genCalls
            /\ rev' = rev
            /\ spent' = spent
            /\ wps'[Cur].status = "ABORTED" ]_vars

\* C3: a waypoint has status FAILED_LLM_OUTPUT exactly when the latest
\* generation step of its turn got invalid JSON from the call and from the
\* one retry; then the turn has returned False, and revision_attempts
\* counts only the attempts made before it (each of which ended in a
\* failed verification or a declined prompt).
C3_StructuralFailure ==
    /\ \A k \in WpIds :
          wps[k].status = "FAILED_LLM_OUTPUT"
              <=> (attempted # <<>> /\ k = Cur /\ lastGen = "structural")
    /\ lastGen = "structural" =>
          /\ pc \in {"ret", "done"}
          /\ turnRes = FALSE
          /\ wps[Cur].revision_attempts = Len(verLog) + denials

\* C3 witness: the structural failure came on a revision, after a failed
\* verification, and the turn is over with FAILED_LLM_OUTPUT
C3_Witness ==
    /\ lastGen = "structural"
    /\ pc = "ret"
    /\ Len(verLog) = 2
    /\ wps[Cur].status = "FAILED_LLM_OUTPUT"
    /\ wps[Cur].revision_attempts = 2

\* C4 (as claimed): once verification has failed with a tooling failure
\* the turn is over: that verification is the last of the turn and the
\* turn has returned False.
C4_ToolingEndsTurn ==
    (\E n \in 1..Len(verLog) : verLog[n] = "tooling") =>
        /\ Last(verLog) = "tooling"
        /\ pc \in {"ret", "done"}
        /\ turnRes = FALSE

\* C5: when a turn has returned after k verifications that failed with a
\* syntax, lint or test failure followed by one that passed (every attempt
\* reached verification: no prompt was declined), it returned success with
\* revision_attempts = k and a feedback history of length k.
C5_SuccessAfterFailures ==
    ( /\ TurnReturned
      /\ verLog # <<>>
      /\ Last(verLog) = "pass"
      /\ FirstFailed(Len(verLog) - 1)
      /\ denials = 0 )
    => /\ turnRes = TRUE
       /\ wps[Cur].revision_attempts = Len(verLog) - 1
       /\ Len(wps[Cur].feedback_history) = Len(verLog) - 1

\* C5 witness: three failed attempts of different kinds, then a pass
C5_Witness ==
    /\ pc = "ret"
    /\ turnRes = TRUE
    /\ denials = 0
    /\ verLog = <<"syntax", "syntax", "test", "pass">>
    /\ wps[Cur].revision_attempts = 3

\* C6: when all max_revisions + 1 attempts of a turn failed verification
\* with a syntax, lint or test failure, the turn returned False with
\* status FAILED_REVISIONS and revision_attempts = max_revisions.
C6_RevisionsExhausted ==
    ( /\ attempted # <<>>
      /\ Len(verLog) = max_revisions + 1
      /\ FirstFailed(max_revisions + 1) )
    => /\ pc \in {"ret", "done"}
       /\ turnRes = FALSE
       /\ wps[Cur].status = "FAILED_REVISIONS"
       /\ wps[Cur].revision_attempts = max_revisions

\* C6 witness: four lint failures in a row
C6_Witness ==
    /\ pc = "ret"
    /\ verLog = <<"lint", "lint", "lint", "lint">>
    /\ wps[Cur].status = "FAILED_REVISIONS"

\* C7 (as claimed): a turn that ended without success, by returning False
\* or by an exception, leaves the project's src/ as it was when the turn began.
C7_FailedTurnKeepsTree ==
    ( \/ pc \in {"ret", "done"} /\ turnRes = FALSE
      \/ pc = "raised" )
    => tree = treeAtStart

\* C8 (as claimed): a waypoint with status SUCCESS has a non-empty
\* output_files list and was merged into src/ exactly once.
C8_SuccessHasOutput ==
    \A k \in WpIds :
        wps[k].status = "SUCCESS" =>
            /\ wps[k].output_files # <<>>
            /\ merges[k] = 1

C10_SequentialHalt ==
    /\ \A n \in 1..Len(attempted) : attempted[n] = n
    /\ \A k \in WpIds :
          wps[k].status # "PENDING" =>
              /\ k \in Range(attempted)
              /\ \A j \in 1..(k - 1) : wps[j].status = "SUCCESS"
    /\ pc \in {"done", "raised"} =>
          /\ runResult = "success" <=> (\A k \in WpIds : wps[k].status = "SUCCESS")
          /\ \A k \in WpIds :
                wps[k].status # "SUCCESS" =>
                    /\ runResult \in {"failure", "raised"}
                    /\ \A j \in (k + 1)..NumWaypoints : wps[j].status = "PENDING"

\* C10 witness: the run ended in failure at the first waypoint and the
\* second one was never started
C10_Witness ==
    /\ pc = "done"
    /\ runResult = "failure"
    /\ attempted = <<1>>
    /\ wps[1].status = "FAILED_REVISIONS"
    /\ wps[2].status = "PENDING"

(* ----------------------- properties: BudgetTracker --------------------- *)
\* the worst-case total the latest pre_call_check was asked about
LedgerSum ==
    ledgerOp.before
    + ledgerOp.prompt_tokens * model_costs[ledgerOp.model].prompt_cost
    + ledgerOp.completion_tokens * model_costs[ledgerOp.model].completion_cost

\* C11: a pre_call_check for a priced model returns allow without asking
\* exactly when current_spent + prompt_cost + max_completion_cost <= cap;
\* when the sum exceeds the cap it asks and returns the user's reply
\* (allow only on an explicit yes); it never changes current_spent.
C11_PreCallCheck ==
    (ledgerOp.op = "pre_call_check" /\ ledgerOp.model \in DOMAIN model_costs) =>
        /\ ledgerOp.returned
        /\ (ledgerOp.result /\ ~ledgerOp.asked) <=> (LedgerSum <= total_budget)
        /\ LedgerSum > total_budget =>
               (ledgerOp.asked /\ ledgerOp.result = ledgerOp.answer)
        /\ spent = ledgerOp.before

\* C11 witness: a check whose worst case lands exactly on the cap was
\* allowed without a prompt
C11_Witness ==
    /\ ledgerOp.op = "pre_call_check"
    /\ ledgerOp.model = DefaultModel
    /\ ledgerOp.before > 0
    /\ LedgerSum = total_budget
    /\ ledgerOp.result
    /\ ~ledgerOp.asked

\* C15: pre_call_check and update_spent called with a model id that has no
\* price entry raise (ValueError, KeyError), return nothing (no decision, no
\* cost) and leave current_spent as it was.
C15_UnknownModelRaises ==
    (ledgerOp.op # "none" /\ ledgerOp.model \notin DOMAIN model_costs) =>
        /\ ledgerOp.raised =
              (IF ledgerOp.op = "pre_call_check" THEN "ValueError" ELSE "KeyError")
        /\ ~ledgerOp.returned
        /\ spent = ledgerOp.before

\* C15 witness: update_spent raised for the unknown model after money had
\* been spent
C15_Witness ==
    /\ ledgerOp.op = "update_spent"
    /\ ledgerOp.model = "unknown-model"
    /\ ledgerOp.raised = "KeyError"
    /\ ledgerOp.prompt_tokens > 0
    /\ spent > TotalBudget \div 2

(* -------------------------- properties: call_llm ----------------------- *)
\* the typed error the adapter maps SDK exception exc to
Typed(exc) == Handlers(adapter)[exc].typed

RetryableErrors == {"RateLimitError", "ServerError", "NetworkError"}

FatalErrors == {"InvalidAPIKeyError", "LLMAPIError"}

\* C16: on every adapter call_llm makes at most 3 attempts; a rate-limit,
\* server or network/timeout error on attempt k < 3 is followed by a wait of
\* min(60, 2^k) seconds and attempt k + 1; a response ends the call at the
\* attempt that got it; a retryable error on attempt 3 is raised as the
\* typed error of that failure.
C16_RetryPolicy ==
    adapter # "none" =>
        /\ attempt \in 1..max_attempts
        /\ Len(errors) <= max_attempts
        /\ callResult # "None"
        /\ \A k \in 1..Len(errors) :
              (Typed(errors[k]) \in RetryableErrors /\ k < max_attempts) =>
                  /\ Len(waits) >= k
                  /\ waits[k] = (IF 2 ^ k < 60 THEN 2 ^ k ELSE 60)
                  /\ attempt > k
        /\ callResult = "response" =>
              /\ attempt = Len(errors) + 1
              /\ Len(waits) = Len(errors)
        /\ (Len(errors) = max_attempts
             /\ Typed(errors[max_attempts]) \in RetryableErrors) =>
              /\ callResult = Typed(errors[max_attempts])
              /\ Len(waits) = max_attempts - 1

\* C16 witness: two retried failures and a timeout on the third attempt,
\* raised as NetworkError after waits of 2 s and 4 s
C16_Witness ==
    /\ adapter = "Google"
    /\ errors = <<"ResourceExhausted", "InternalServerError", "DeadlineExceeded">>
    /\ waits = <<2, 4>>
    /\ callResult = "NetworkError"

\* C17: an invalid-credentials error or an unclassified error on any
\* attempt is the last attempt of the call: no wait follows it and it is
\* raised as InvalidAPIKeyError or LLMAPIError respectively.
C17_FatalErrorsBypassRetry ==
    \A k \in 1..Len(errors) :
        Typed(errors[k]) \in FatalErrors =>
            /\ k = Len(errors)
            /\ attempt = k
            /\ Len(waits) = k - 1
            /\ callResult = Typed(errors[k])
            /\ errors[k] \in {"AuthenticationError", "Unauthenticated"}
                   <=> callResult = "InvalidAPIKeyError"

\* C17 witness: after one retried rate-limit error the second attempt hit
\* an error no clause classifies, raised as LLMAPIError without a wait
C17_Witness ==
    /\ adapter = "Anthropic"
    /\ errors = <<"RateLimitError", "Exception">>
    /\ waits = <<2>>
    /\ attempt = 2
    /\ callResult = "LLMAPIError"

(* ------------- properties: one project over several operations -------- *)
\* C12 (as claimed): no operation lowers the project's cumulative spend,
\* in the budget tracker or in the project state, and the tracker's
\* current_spent always equals the sum of the costs update_spent returned
\* for the project.
C12_SpendMonotone ==
    [][ /\ spent' >= spent
        /\ stateSpent' >= stateSpent
        /\ spent' = recorded' ]_vars

\* C13 (as claimed): what update_spent adds for a planning, generation or
\* repair call is at most the worst case the pre-call check of its step
\* approved, and the tracker's current_spent is above the cap only after
\* the user has confirmed an over-budget prompt.
C13_CommitWithinApproval ==
    /\ \A k \in 1..Len(stepCalls) :
          (stepCalls[k].committed
           /\ stepCalls[k].kind \in {"planning", "generation", "repair"}) =>
              stepCalls[k].cost <= stepCalls[k].approved
    /\ spent > total_budget => overridden

\* C14 (as claimed): every call of a generation step, the first one and
\* the JSON retry, had a pre_call_check of its own before it, and every
\* one that returned a response had its cost added by update_spent.
C14_EveryCallGatedAndRecorded ==
    \A k \in 1..Len(stepCalls) :
        stepCalls[k].kind \in {"generation", "repair"} =>
            /\ stepCalls[k].checked
            /\ stepCalls[k].responded => stepCalls[k].committed

\* C18: when the credential validation of a develop failed, that develop
\* made no planning call, no generation call and no update_spent, left
\* every waypoint as it was, and has returned.
C18_NoWorkAfterFailedValidation ==
    (devLog.op = "develop" /\ ~devLog.valid) =>
        /\ ~devLog.planned
        /\ ~devLog.generated
        /\ ~devLog.committed
        /\ wps = devLog.waypoints
        /\ pc \in {"loaded", "unloaded"}

\* C18 witness: validation failed for a develop on a project that already
\* had a plan and money spent from an earlier develop
C18_Witness ==
    /\ devLog.op = "develop"
    /\ ~devLog.valid
    /\ pc = "loaded"
    /\ recorded > 0
    /\ Len(wps) = SessWaypoints
    /\ wps[1].status = "SUCCESS"

(* ------------- properties: failures that leave the turn --------------- *)
\* C19 (as claimed): when a turn was ended by a failure the call layer did
\* not absorb (the agent's call raised, the context could not be built,
\* the dependencies could not be installed), the waypoint of that turn
\* has a terminal status: it is neither RUNNING nor PENDING.
C19_FailureLeavesTerminalStatus ==
    (pc = "raised" /\ lastGen \in {"call_error", "context_error", "install_error"}) =>
        wps[i].status \notin {"PENDING", "RUNNING"}

(* ------------- properties: project_state.json -------------------------- *)
\* C20 (as claimed): whenever load is called after a save, it returns a
\* state, and that state equals the state that was last saved: waypoints
\* with status, counters, feedback history and output lists, the budget
\* fields, the cursor and the dates.
C20_LoadReturnsWhatWasSaved ==
    (storeLog.op = "load" /\ storeLog.exists) =>
        /\ storeLog.raised = "none"
        /\ storeLog.returned = storeLog.saved

(* ------------- properties: StateManager.save --------------------------- *)
\* C21: at every point of a save, and after a crash during it,
\* project_state.json is either as it was before the save or the complete
\* new document, and when it exists it is a complete document that load
\* reads without error.
C21_StateFileNeverPartial ==
    /\ disk \in {storeLog.before, File(Encode(storeLog.pending), SaveChunks)}
    /\ disk # Absent =>
          /\ Parsable(disk)
          /\ LoadFile(disk).raised = "none"
    /\ (storeLog.op = "load" /\ storeLog.at = "killed") => storeLog.raised = "none"

\* C21 witness: the process was killed while the temp file held part of
\* the new document, an earlier save having completed, and the next load
\* read the earlier state
C21_Witness ==
    /\ storeLog.op = "load"
    /\ storeLog.at = "killed"
    /\ storeLog.has
    /\ storeLog.pending # storeLog.committed
    /\ tmp # <<>>
    /\ Last(tmp).written \in 1..(SaveChunks - 1)
    /\ disk = File(Encode(storeLog.committed), SaveChunks)
    /\ stateSpent = storeLog.committed.current_spent_usd

\* C22 (as claimed): a save that failed, at whatever step, raised
\* RuntimeError, left no temp file of its own and left project_state.json
\* as it was.
C22_FailedSaveCleansUp ==
    (storeLog.op = "save" /\ storeLog.at \in {"mkstemp", "write", "rename"}) =>
        /\ storeLog.raised = "RuntimeError"
        /\ tmp = storeLog.temps
        /\ disk = storeLog.before

(* ------------- properties: the .lock file ------------------------------ *)
\* C23: when load_project checks a lock file that exists, it is refused
\* and the lock file stays as it was; when the file records a pid the
\* message is the in-use one if that process is alive and the stale-lock
\* one if it is not.
C23_ExistingLockRefuses ==
    [][ \A p \in Pids :
          (procs[p].check = "none" /\ procs'[p].check # "none"
           /\ lockFile.kind # "none") =>
              /\ procs'[p].pc = "refused"
              /\ ~procs'[p].project_state
              /\ lockFile' = lockFile
              /\ lockFile.kind = "lock" =>
                    procs'[p].check = IF Alive(lockFile.pid) THEN "in_use"
                                      ELSE "stale" ]_vars

\* C23 witness: a process was refused with the in-use message by the lock
\* of a running process, and the lock is still there
C23_Witness ==
    /\ \E p \in Pids : procs[p].check = "in_use" /\ procs[p].pc = "refused"
    /\ lockFile.kind = "lock"
    /\ Alive(lockFile.pid)

\* C24 (as claimed): at most one process at a time has acquired the lock
\* and is loading or working on the project.
C24_AtMostOneHolder ==
    Cardinality({p \in Pids : procs[p].pc \in {"load", "loaded"}}) <= 1

\* C25 (as claimed): no process has removed a lock file that another
\* process created.
C25_NeverRemovesForeignLock ==
    \A p \in Pids : procs[p].removed # "other"

\* C26 (as claimed): a process that a signal ended with a project loaded
\* saved the state exactly once while shutting down, and its own lock
\* file is gone.
C26_SignalSavesOnce ==
    \A p \in Pids :
        (procs[p].pc = "exited" /\ procs[p].signalled) =>
            /\ procs[p].project_state => procs[p].shutdown_saves = 1
            /\ lockFile # Lock(p)

(* ------------- properties: planning and the budget --------------------- *)
\* C27: when the budget check of the planning call was denied, the
\* planner was not called, update_spent was not called, no waypoint was
\* executed or changed, and develop has returned.
C27_DeniedPlanningStopsDevelop ==
    (devLog.op = "develop" /\ devLog.plan_check = "denied") =>
        /\ ~devLog.planned
        /\ ~devLog.committed
        /\ ~devLog.generated
        /\ wps = devLog.waypoints
        /\ pc \in {"loaded", "unloaded"}

\* C27 witness: the planning call of a second develop was denied, with the
\* spend of the first develop near the cap, and nothing was added to it
C27_Witness ==
    /\ devLog.op = "develop"
    /\ devLog.plan_check = "denied"
    /\ pc = "loaded"
    /\ stepCalls = <<>>
    /\ spent > 0
    /\ spent = recorded
    /\ Len(wps) = SessWaypoints

(* ------------- properties: calls and results of a turn ----------------- *)
\* C28 (as claimed): the agent calls of a turn are at most one generation
\* call per revision attempt started plus one structural-repair call, so
\* at most max_revisions + 2 over the whole turn.
C28_OneRepairPerTurn ==
    /\ genCalls <= (rev + 1) + 1
    /\ genCalls <= (max_revisions + 1) + 1

\* C28 (amended): the agent calls of a turn are at most two per revision
\* attempt started, one generation call and one structural-repair call,
\* so at most 2 * (max_revisions + 1) over the whole turn.
C28_OneRepairPerAttempt ==
    /\ rev \in RevisionRange
    /\ genCalls <= 2 * (rev + 1)
    /\ genCalls <= 2 * (max_revisions + 1)

\* C28 witness: the first attempt and the first revision each needed the
\* repair call, so the turn has made two repair calls
C28_Witness ==
    /\ pc = "verify"
    /\ rev = 1
    /\ genCalls = 4
    /\ verLog # <<>>

\* C29 (as claimed): when _execute_single_waypoint returns True the
\* waypoint's status is SUCCESS.
C29_TurnMarksSuccess ==
    (pc = "ret" /\ turnRes) => wps[i].status = "SUCCESS"

\* C30 (as claimed): when the copy of a verified scratch directory into
\* src/ ended, by returning or by an exception part-way, src/ is either
\* as it was before the merge or holds every file of the scratch directory.
C30_MergeAllOrNothing ==
    (verLog # <<>> /\ Last(verLog) = "pass") =>
        \/ tree = treeAtStart
        \/ tree = CopyFiles(treeAtStart, scratch, Paths)

(* ------------- properties: the persisted state of the engine ------------ *)
\* C31: in every reachable state each waypoint's status, in memory and in
\* the saved state file, is one of the ten values of the Waypoint model
C31_StatusInEnumeration ==
    /\ \A k \in DOMAIN wps : wps[k].status \in Statuses
    /\ \A k \in DOMAIN disk.waypoints : disk.waypoints[k].status \in Statuses

\* C32: once the engine has moved on from a waypoint's turn (to the next
\* waypoint or to the end of the run), the state file records the cursor and
\* every terminal status reached
C32_SavedAfterTerminal ==
    pc \in {"loop", "done"} =>
        /\ disk.current_waypoint_index = idx
        /\ \A k \in WpIds :
              wps[k].status \in TerminalStatuses =>
                  disk.waypoints[k].status = wps[k].status

\* C33: the state file never holds a waypoint in the middle of its turn: no
\* waypoint is RUNNING in it, and a waypoint that is PENDING in it has the
\* counters, cost and output list it was planned with
C33_SavedStateAtBoundary ==
    \A k \in DOMAIN disk.waypoints :
        LET w == disk.waypoints[k]
        IN  /\ w.status # "RUNNING"
            /\ w.status = "PENDING" =>
                   /\ w.revision_attempts = 0
                   /\ w.cost = 0
                   /\ w.output_files = <<>>
                   /\ w.feedback_history = <<>>

(* -------------------- properties: cost of a call ------------------------ *)
\* C34: the cost committed for a call is the call's actual prompt tokens
\* times the prompt price plus its actual completion tokens times the
\* completion price; that amount is added to the cumulative spend and, for a
\* generation call, to the waypoint's cost
C34_CostFromActualUsage ==
    ledgerOp.op = "commit" =>
        /\ ledgerOp.total_cost = LedgerSum - ledgerOp.before
        /\ spent = LedgerSum
        /\ ledgerOp.kind = "generation" =>
               wps[1].cost = ledgerOp.cost_before + (LedgerSum - ledgerOp.before)

(* ------------------- properties: feedback and outputs ------------------- *)
\* a step in which _verify_waypoint returned for the waypoint of this turn
Verified == Len(verLog') = Len(verLog) + 1


\* C35: during its turn a waypoint's feedback history only grows at the end
\* (no entry is removed, reordered or changed), by exactly one entry for each
\* failed verification and by none otherwise, and the feedback attached to
\* the context of a revision n >= 1 is the last entry of the history at
\* that moment
C35_FeedbackAppendOnly ==
    [][/\ \A k \in DOMAIN wps \cap DOMAIN wps' :
             LET old == wps[k].feedback_history
                 new == wps'[k].feedback_history
             IN  /\ Len(new) >= Len(old)
                 /\ SubSeq(new, 1, Len(old)) = old
                 /\ Len(new) = Len(old) + 1
                        <=> (k = i /\ Verified /\ Last(verLog') # "pass")
                 /\ Len(new) \in {Len(old), Len(old) + 1}
        /\ LET called == pc = "gen" /\ genCalls' > genCalls
               history == wps[i].feedback_history
               revising == rev >= 1 /\ history # <<>>
           IN  called =>
                  /\ revision_feedback'.attached <=> revising
                  /\ revising => revision_feedback'.entry = Last(history)]_vars

\* C35 witness: the third attempt of a turn was generated with the feedback
\* of the second failure, which differs from the first one still in the history
C35_Witness ==
    /\ pc = "verify"
    /\ rev = 2
    /\ Len(wps[i].feedback_history) = 2
    /\ wps[i].feedback_history[1] # wps[i].feedback_history[2]
    /\ revision_feedback = [attached |-> TRUE, entry |-> wps[i].feedback_history[2]]

\* C36: the output_files of a waypoint whose turn succeeded are the files
\* the accepted attempt wrote, each listed once
C36_OutputOfAcceptedAttempt ==
    (pc = "ret" /\ turnRes) => wps[i].output_files = codeWritten

(* ----------------------- properties: termination ------------------------ *)
\* C37: a waypoint's turn makes at most max_revisions + 1 generation
\* attempts, each with at most one repair call and one verification, and
\* every turn that has started returns, raises or is ended by a signal
C37_TurnTerminates ==
    /\ [](/\ rev \in RevisionRange
          /\ Len(verLog) <= max_revisions + 1
          /\ genCalls <= 2 * (max_revisions + 1)
          /\ denials <= max_revisions + 1)
    /\ (pc \in {"gen", "verify"}) ~> (pc \in {"ret", "raised", "exited"})

\* C37 witness: a turn returned after every one of the max_revisions + 1
\* attempts had been generated and had failed verification
C37_Witness ==
    /\ pc = "ret"
    /\ ~turnRes
    /\ rev = max_revisions
    /\ Len(verLog) = max_revisions + 1
    /\ genCalls = max_revisions + 1
    /\ wps[i].status = "FAILED_REVISIONS"

(* ------------------------ properties: the cursor ------------------------ *)
\* C38: while _execute_waypoints runs, every waypoint before the one at
\* current_waypoint_index has status SUCCESS, and current_waypoint_index
\* never decreases (develop can be run again on the loaded project)
C38_CursorInSession ==
    /\ [](pc \in {"loop", "gen", "verify", "ret"} =>
             \A k \in DOMAIN wps : k < idx => wps[k].status = "SUCCESS")
    /\ [][(pc \in {"loop", "gen", "verify", "ret"}) => idx' >= idx]_vars

(* ------------------- properties: the persisted spend -------------------- *)
\* C39: every save writes a current_spent_usd equal to the budget tracker's
\* current_spent at that moment
C39_SavedSpendIsLedgerSpend ==
    [][disk' # disk => disk'.current_spent_usd = spent']_vars

(* ------------------- properties: the lock during cleanup ---------------- *)
\* C40: no process writes the state file in cleanup after it has removed
\* its lock file
C40_SavesUnderLock ==
    \A p \in Pids : procs[p].unlocked_saves = 0

====
